---- MODULE Spec2Model ----
(***************************************************************************)
(* Attribution-code lifecycle of the telegram-redirect service:            *)
(*   - the code codec (src/lib/code.ts),                                   *)
(*   - the two storage backends (src/lib/storage/memory.ts, sqlite.ts),    *)
(*   - the LRU code cache (src/lib/cache.ts),                              *)
(*   - the click handler GET /tg/:slug (routes/tg.ts),                     *)
(*   - the resolve and status handlers GET /r/:code[/status]               *)
(*     (routes/resolve.ts).                                                *)
(*                                                                         *)
(* Characters are numbers: 0..63 are the 64 characters of the base64url    *)
(* alphabet [A-Za-z0-9_-] in alphabet order, every larger number is a      *)
(* character outside that class.  A string is a sequence of characters.    *)
(***************************************************************************)
EXTENDS Integers, Sequences, FiniteSets, TLC

VARIABLES
    oneTimeCodes,   \* config.oneTimeCodes, fixed at process start
    backend,        \* "memory" | "sqlite": the storage the app was built with
    store,          \* code_mappings: code id -> stored row, or NULL
    clickLogs,      \* click_logs: sequence of click log entries
    cache,          \* the LRU code cache: code id -> reference of an object, or NULL
    heap,           \* CodeMapping objects held by handlers and by the cache
    proc,           \* the request handlers in flight, one record per slot
    now,            \* the wall clock read by new Date()
    faulted,        \* history: some storage call threw
    resp,           \* the response the last step sent, with the request it answers
    nclicks,        \* number of click requests accepted so far
    issued,         \* history: code id -> the mapping the click handler built for it
    raced,          \* history: code id -> a resolve began while another was in flight
    resolvedOk,     \* history: code id -> some resolve of it has returned 200
    wroteResolved,  \* history: code id -> a resolve re-wrote the cache after markResolved
    cx              \* the codec run: input, stage and result of a codec call

vars == <<oneTimeCodes, backend, store, clickLogs, cache, heap, proc, resp, now,
          faulted, nclicks, issued, raced, resolvedOk, wroteResolved, cx>>

hvars == <<oneTimeCodes, backend, store, clickLogs, cache, heap, proc, resp, now,
           faulted, nclicks, issued, raced, resolvedOk, wroteResolved>>

\* null / undefined: of an object, of an object reference, of a timestamp.
NULL == [none |-> TRUE]
NoRef == 0
NoTime == 0 - 1

(***************************************************************************)
(* Bounds of the model.                                                    *)
(***************************************************************************)
NProcs == 2        \* request handlers that can be in flight together
NCodes == 1        \* distinct 16-byte draws of randomBytes the clicks can get
MaxTime == 1       \* the clock runs 0..MaxTime
MaxClicks == 1     \* click requests in one run
NDraws == 3        \* distinct 16-byte draws the codec runs start from
MaxUrlLen == 2     \* longest destination and start parameter of the URL runs
MaxOver == 1       \* characters by which the longest checked text exceeds MAX_CODE_LENGTH
MaxCalls == 3      \* calls and writes of the caller in one storage run
MaxLimit == 2      \* largest limit passed to getClickLogs
MaxNear == 60      \* click log runs go from this far below the cap to this far above
MaxParams == 2     \* most parameters of a query of the parameter runs

Procs == 1..NProcs
CodeIds == 1..NCodes

(***************************************************************************)
(* Code codec, src/lib/code.ts                                             *)
(***************************************************************************)
MAX_CODE_LENGTH == 64
RANDOM_BYTES == 16
SIGNATURE_LENGTH == 8
MIN_PAYLOAD_LENGTH == 10
DIGEST_BYTES == 32

Pow2(n) == 2 ^ n

\* The characters matched by /^[A-Za-z0-9_-]+$/.
UrlSafeChar(ch) == ch \in 0..63

\* Bit i (0-based, most significant first) of a byte string; 0 past its end.
BitOf(bytes, i) ==
    IF i < 8 * Len(bytes)
    THEN (bytes[(i \div 8) + 1] \div Pow2(7 - (i % 8))) % 2
    ELSE 0

\* Buffer.toString('base64'): 6-bit groups, the last one zero-filled, and the
\* text padded with '=' (character 64) to a multiple of four characters.
bytesToBase64(bytes) ==
    LET n == (8 * Len(bytes) + 5) \div 6
        padded == 4 * ((n + 3) \div 4)
    IN  [k \in 1..padded |->
            IF k <= n
            THEN BitOf(bytes, 6*(k-1)) * 32 + BitOf(bytes, 6*(k-1) + 1) * 16
                 + BitOf(bytes, 6*(k-1) + 2) * 8 + BitOf(bytes, 6*(k-1) + 3) * 4
                 + BitOf(bytes, 6*(k-1) + 4) * 2 + BitOf(bytes, 6*(k-1) + 5)
            ELSE 64]

\* Buffer.toString('base64url'): the same groups in the URL-safe alphabet,
\* without padding.
bytesToBase64url(bytes) ==
    LET n == (8 * Len(bytes) + 5) \div 6
    IN  [k \in 1..n |->
            BitOf(bytes, 6*(k-1)) * 32 + BitOf(bytes, 6*(k-1) + 1) * 16
            + BitOf(bytes, 6*(k-1) + 2) * 8 + BitOf(bytes, 6*(k-1) + 3) * 4
            + BitOf(bytes, 6*(k-1) + 4) * 2 + BitOf(bytes, 6*(k-1) + 5)]

\* config.codeSigningSecret, as a number mixed into every digest byte.
codeSigningSecret == 37

RECURSIVE MixSum(_, _, _)
MixSum(payload, j, i) ==
    IF i = 0 THEN 0
    ELSE ((2 * ((i * j) % 7) + 1) * (payload[i] + 1) + MixSum(payload, j, i - 1)) % 256

\* createHmac('sha256', secret).update(payload).digest(): a keyed digest of
\* DIGEST_BYTES bytes.  The digest is a keyed checksum with odd weights, so that,
\* like the HMAC up to its collision probability, two payloads that differ in
\* one character or in length have different digests.
HmacDigest(secret, payload) ==
    [j \in 1..DIGEST_BYTES |->
        (secret * j + 11 * Len(payload) + MixSum(payload, j, Len(payload))) % 256]

createSignature(payload) ==
    LET fullSig == bytesToBase64url(HmacDigest(codeSigningSecret, payload))
    IN  SubSeq(fullSig, 1, SIGNATURE_LENGTH)

\* result = ... in place of result |= ...: the last character decides.
XorLast(expectedSig, signature) ==
    IF expectedSig[Len(expectedSig)] # signature[Len(signature)] THEN 1 ELSE 0

\* result |= expectedSig.charCodeAt(i) ^ signature.charCodeAt(i), for every i
XorAccumulate(expectedSig, signature) ==
    Cardinality({i \in 1..Len(expectedSig) : expectedSig[i] # signature[i]})

verifySignature(payload, signature) ==
    LET expectedSig == createSignature(payload)
    IN  IF Len(expectedSig) # Len(signature) THEN FALSE
        ELSE XorAccumulate(expectedSig, signature) = 0

\* randomBytes(RANDOM_BYTES).toString('base64') in place of 'base64url'.
generateRandomPartPadded(bytes) == bytesToBase64(bytes)

generateRandomPart(bytes) == bytesToBase64url(bytes)

\* generateCode(), given the bytes randomBytes(RANDOM_BYTES) returned: the code,
\* or the throw of the sanity check on its length.
generateCode(bytes) ==
    LET random == generateRandomPart(bytes)
        signature == createSignature(random)
        code == random \o signature
    IN  IF Len(code) > MAX_CODE_LENGTH
        THEN [threw |-> TRUE, code |-> <<>>]
        ELSE [threw |-> FALSE, code |-> code]

AllUrlSafe(code) == \A i \in 1..Len(code) : UrlSafeChar(code[i])

\* A validateCode that takes one character too many for the signature.
validateCodeOffByOne(code) ==
    IF Len(code) = 0 \/ Len(code) < SIGNATURE_LENGTH + MIN_PAYLOAD_LENGTH
       \/ Len(code) > MAX_CODE_LENGTH
    THEN FALSE
    ELSE IF ~AllUrlSafe(code) THEN FALSE
    ELSE verifySignature(SubSeq(code, 1, Len(code) - SIGNATURE_LENGTH - 1),
                         SubSeq(code, Len(code) - SIGNATURE_LENGTH, Len(code)))

\* A validateCode that checks the length and the characters only.
validateCodeUnsigned(code) ==
    IF Len(code) = 0 \/ Len(code) < SIGNATURE_LENGTH + MIN_PAYLOAD_LENGTH
       \/ Len(code) > MAX_CODE_LENGTH
    THEN FALSE
    ELSE AllUrlSafe(code)

\* A validateCode without the check of the characters.
validateCodeAnyChars(code) ==
    IF Len(code) = 0 \/ Len(code) < SIGNATURE_LENGTH + MIN_PAYLOAD_LENGTH
       \/ Len(code) > MAX_CODE_LENGTH
    THEN FALSE
    ELSE verifySignature(SubSeq(code, 1, Len(code) - SIGNATURE_LENGTH),
                         SubSeq(code, Len(code) - SIGNATURE_LENGTH + 1, Len(code)))

validateCode(code) ==
    IF Len(code) = 0 \/ Len(code) < SIGNATURE_LENGTH + MIN_PAYLOAD_LENGTH
       \/ Len(code) > MAX_CODE_LENGTH
    THEN FALSE
    ELSE IF ~AllUrlSafe(code) THEN FALSE
    ELSE verifySignature(SubSeq(code, 1, Len(code) - SIGNATURE_LENGTH),
                         SubSeq(code, Len(code) - SIGNATURE_LENGTH + 1, Len(code)))

\* /[A-Za-z0-9_-]+/ without the anchors: one character of the class is enough.
isValidCodeFormatUnanchored(code) ==
    IF Len(code) = 0 THEN FALSE
    ELSE IF Len(code) > MAX_CODE_LENGTH THEN FALSE
    ELSE \E i \in 1..Len(code) : UrlSafeChar(code[i])

isValidCodeFormat(code) ==
    IF Len(code) = 0 THEN FALSE
    ELSE IF Len(code) > MAX_CODE_LENGTH THEN FALSE
    ELSE AllUrlSafe(code)

\* The two functions on a JavaScript value v = [type, chars]: null and
\* undefined are falsy, "if (!code ...) return false".
isValidCodeFormatOf(v) ==
    IF v.type # "string" THEN FALSE ELSE isValidCodeFormat(v.chars)
validateCodeOf(v) ==
    IF v.type # "string" THEN FALSE ELSE validateCode(v.chars)

\* The byte strings randomBytes(RANDOM_BYTES) returns in the model.
RandomDraw(k) == [i \in 1..RANDOM_BYTES |-> (k * 83 + i * (2 * k + 29)) % 256]

\* The code the click handler issues for draw k.
CodeOf == [k \in CodeIds |-> generateCode(RandomDraw(k)).code]


\* 'aaaaaaaaaaaaaaaaaaaaaaaaaaaaaa': well-formed, never signed by this service.
ForgedCode == [i \in 1..30 |-> 26]
\* 'invalid!@#': holds characters outside [A-Za-z0-9_-].
MalformedCode == <<34, 39, 47, 26, 37, 34, 29, 64, 65, 66>>

\* The :code path parameters the resolve and status requests carry.
\* 1..NCodes are the codes the clicks can issue, then the forged and the
\* malformed one.
ForgedInput == NCodes + 1
MalformedInput == NCodes + 2
Inputs == 1..MalformedInput
InputString(i) ==
    IF i \in CodeIds THEN CodeOf[i]
    ELSE IF i = ForgedInput THEN ForgedCode ELSE MalformedCode

\* Handlers without the format check, and without the signature check.
FormatOkSkipped == [i \in Inputs |-> TRUE]
SignatureOkSkipped == [i \in Inputs |-> TRUE]

FormatOk == [i \in Inputs |-> isValidCodeFormat(InputString(i))]

SignatureOk == [i \in Inputs |-> validateCode(InputString(i))]

(***************************************************************************)
(* Query parameters, src/lib/utils.ts.  Keys and values are strings of     *)
(* one-character strings.                                                  *)
(***************************************************************************)
MAX_PARAM_VALUE_LENGTH == 256

K_utm_source == <<"u","t","m","_","s","o","u","r","c","e">>
K_utm_medium == <<"u","t","m","_","m","e","d","i","u","m">>
K_utm_campaign == <<"u","t","m","_","c","a","m","p","a","i","g","n">>
K_utm_term == <<"u","t","m","_","t","e","r","m">>
K_utm_content == <<"u","t","m","_","c","o","n","t","e","n","t">>
UTM_PARAMS == {K_utm_source, K_utm_medium, K_utm_campaign, K_utm_term, K_utm_content}

Min(a, b) == IF a < b THEN a ELSE b

XssChar(ch) == ch \in {"<", ">", "\"", "'"}

sanitizeParamValue(value) ==
    LET cut == SubSeq(value, 1, Min(Len(value), MAX_PARAM_VALUE_LENGTH))
        Keep(ch) == ~XssChar(ch)
    IN  SelectSeq(cut, Keep)

extractUtmParams(query) ==
    [key \in {k \in UTM_PARAMS \cap DOMAIN query : Len(query[k]) > 0} |->
        sanitizeParamValue(query[key])]

MAX_PARAM_KEY_LENGTH == 64

\* \w of the patterns below: a letter, a digit or the underscore.
WordChar(ch) ==
    ch \in { "a","b","c","d","e","f","g","h","i","j","k","l","m",
             "n","o","p","q","r","s","t","u","v","w","x","y","z",
             "A","B","C","D","E","F","G","H","I","J","K","L","M",
             "N","O","P","Q","R","S","T","U","V","W","X","Y","Z",
             "0","1","2","3","4","5","6","7","8","9","_" }

\* key.slice(0, MAX_PARAM_KEY_LENGTH).replace(/[^a-zA-Z0-9_-]/g, '')
sanitizeParamKey(key) ==
    LET cut == SubSeq(key, 1, Min(Len(key), MAX_PARAM_KEY_LENGTH))
        Keep(ch) == WordChar(ch) \/ ch = "-"
    IN  SelectSeq(cut, Keep)

\* DANGEROUS_PARAMS.some(pattern => pattern.test(key)); every pattern has the
\* flag i, so the key is matched in lower case.
isDangerousParam(key) ==
    LET upper == <<"A","B","C","D","E","F","G","H","I","J","K","L","M",
                   "N","O","P","Q","R","S","T","U","V","W","X","Y","Z">>
        lower == <<"a","b","c","d","e","f","g","h","i","j","k","l","m",
                   "n","o","p","q","r","s","t","u","v","w","x","y","z">>
        Low(ch) == IF \E i \in 1..26 : upper[i] = ch
                   THEN lower[CHOOSE i \in 1..26 : upper[i] = ch]
                   ELSE ch
        low == [i \in 1..Len(key) |-> Low(key[i])]
        n == Len(low)
        StartsWith(p) == n >= Len(p) /\ SubSeq(low, 1, Len(p)) = p
        \* /on\w+$/i is not anchored at the start
        EndsOnWord == \E i \in 1..n :
                         /\ i + 2 <= n
                         /\ low[i] = "o"
                         /\ low[i + 1] = "n"
                         /\ \A j \in (i + 2)..n : WordChar(low[j])
    IN  \/ StartsWith(<<"j","a","v","a","s","c","r","i","p","t",":">>)
        \/ StartsWith(<<"d","a","t","a",":">>)
        \/ StartsWith(<<"v","b","s","c","r","i","p","t",":">>)
        \/ EndsOnWord
        \/ low = <<"_","_","p","r","o","t","o","_","_">>
        \/ low = <<"c","o","n","s","t","r","u","c","t","o","r">>
        \/ low = <<"p","r","o","t","o","t","y","p","e">>

\* The map of the non-UTM parameters.  isDangerousParam is asked about the key
\* of the query, and the map is written under sanitizeParamKey of that key.
\* extra is an object literal: an assignment of a string to extra['__proto__']
\* calls the setter of Object.prototype, which ignores a value that is no
\* object, and leaves extra without such a key.  When two keys of the query
\* are written under one key, the later entry of the query overwrites the
\* earlier; a query map here has no order of entries, and the query maps of
\* the runs have no two such keys.
extractExtraParams(query) ==
    LET written == {k \in DOMAIN query :
                       /\ k \notin UTM_PARAMS
                       /\ Len(query[k]) > 0
                       /\ ~isDangerousParam(k)
                       /\ sanitizeParamKey(k) # <<"_","_","p","r","o","t","o","_","_">>}
    IN  [key \in {sanitizeParamKey(k) : k \in written} |->
            sanitizeParamValue(query[CHOOSE k \in written : sanitizeParamKey(k) = key])]

\* The query strings of the click requests of the model.
Queries ==
    { [k \in {K_utm_source} |-> <<"l", "i">>],
      [k \in {K_utm_source, K_utm_campaign} |->
          IF k = K_utm_source THEN <<"<", "x">> ELSE <<>>] }

(***************************************************************************)
(* Slug configuration, lib/slugs.ts, with the slugs of the integration     *)
(* tests.                                                                  *)
(***************************************************************************)
\* Destinations are texts in the alphabet of the codes: A-Z are 0..25, a-z are
\* 26..51, 0-9 are 52..61, '-' is 62 and '_' is 63.
D_SalesBot == <<18, 26, 37, 30, 44, 1, 40, 45>>
D_SupportBot == <<18, 46, 41, 41, 40, 43, 45, 1, 40, 45>>
D_Channel == <<2, 33, 26, 39, 39, 30, 37>>
D_ABCdef123456 == <<0, 1, 2, 29, 30, 31, 53, 54, 55, 56, 57, 58>>
D_DemoBot == <<3, 30, 38, 40, 1, 40, 45>>

SlugTable ==
    [ sales     |-> [type |-> "bot",    mode |-> "302",  destination |-> D_SalesBot,     active |-> TRUE],
      support   |-> [type |-> "bot",    mode |-> "shim", destination |-> D_SupportBot,   active |-> TRUE],
      community |-> [type |-> "public", mode |-> "shim", destination |-> D_Channel,      active |-> TRUE],
      vip       |-> [type |-> "invite", mode |-> "shim", destination |-> D_ABCdef123456, active |-> TRUE],
      demo      |-> [type |-> "bot",    mode |-> "302",  destination |-> D_DemoBot,      active |-> FALSE] ]

\* The :slug path parameters of the click requests of the model.
Slugs == DOMAIN SlugTable \cup {"nonexistent"}

\* The active bot slugs: the clicks that issue a code.
BotSlugs == {s \in DOMAIN SlugTable : SlugTable[s].active /\ SlugTable[s].type = "bot"}

\* A lookup that does not look at the active flag.
getSlugConfigInactiveToo(slug) ==
    IF slug \notin DOMAIN SlugTable THEN NULL ELSE SlugTable[slug]

getSlugConfig(slug) ==
    IF slug \notin DOMAIN SlugTable THEN NULL
    ELSE IF ~SlugTable[slug].active THEN NULL
    ELSE SlugTable[slug]

\* Characters of a URL beyond the alphabet of the codes.
CH_SPACE == 70
CH_PLUS == 71
CH_DOT == 72
CH_PERCENT == 73
\* 'https://t.me/' and '?start=', each written as one symbol.
URL_BASE == 80
URL_START == 81

\* The characters encodeURIComponent leaves alone, of those of the model:
\* A-Z a-z 0-9 - _ and '.'; it escapes the space and '+'.
Unreserved(ch) == ch \in 0..63 \/ ch = CH_DOT

\* %XX of a character, XX the hexadecimal of its code.
PercentEncoded(ch) ==
    IF ch = CH_SPACE THEN <<CH_PERCENT, 54, 52>>            \* %20
    ELSE IF ch = CH_PLUS THEN <<CH_PERCENT, 54, 1>>         \* %2B
    ELSE <<CH_PERCENT, 54, 57>>                             \* %25, of '%'

\* encodeURI in place of encodeURIComponent: it leaves '+' alone.
RECURSIVE encodeURI(_)
encodeURI(text) ==
    IF Len(text) = 0 THEN <<>>
    ELSE (IF Unreserved(Head(text)) \/ Head(text) = CH_PLUS
          THEN <<Head(text)>> ELSE PercentEncoded(Head(text)))
         \o encodeURI(Tail(text))

RECURSIVE encodeURIComponent(_)
encodeURIComponent(text) ==
    IF Len(text) = 0 THEN <<>>
    ELSE (IF Unreserved(Head(text)) THEN <<Head(text)>> ELSE PercentEncoded(Head(text)))
         \o encodeURIComponent(Tail(text))

\* buildFallbackUrl: startParam is <<>> when the caller passes none or the
\* empty string, which the test "startParam ?" treats alike.
buildFallbackUrl(type, destination, startParam) ==
    IF type = "bot"
    THEN IF Len(startParam) > 0
         THEN <<URL_BASE>> \o encodeURIComponent(destination)
              \o <<URL_START>> \o encodeURIComponent(startParam)
         ELSE <<URL_BASE>> \o encodeURIComponent(destination)
    ELSE IF type = "public"
    THEN <<URL_BASE>> \o encodeURIComponent(destination)
    ELSE <<URL_BASE, CH_PLUS>> \o encodeURIComponent(destination)

getDirectRedirectUrl(type, destination, startParam) ==
    buildFallbackUrl(type, destination, startParam)

(***************************************************************************)
(* JSON.stringify / JSON.parse of an attribution (sqlite.ts): the text     *)
(* lists the key/value pairs of the object and of its nested utm object.   *)
(***************************************************************************)
\* JSON.stringify(a, ['slug', 'timestamp', 'requestId', 'utm']): a key list
\* as replacer filters the nested objects too, and utm comes out empty.
JsonStringifyListed(a) ==
    [ slug |-> a.slug, timestamp |-> a.timestamp, requestId |-> a.requestId,
      utm |-> {} ]

JsonStringify(a) ==
    [ slug |-> a.slug, timestamp |-> a.timestamp, requestId |-> a.requestId,
      utm |-> {<<k, a.utm[k]>> : k \in DOMAIN a.utm} ]

JsonParse(text) ==
    [ slug |-> text.slug, timestamp |-> text.timestamp, requestId |-> text.requestId,
      utm |-> [k \in {kv[1] : kv \in text.utm} |->
                  (CHOOSE kv \in text.utm : kv[1] = k)[2]] ]

(***************************************************************************)
(* Storage backends.  A CodeMapping is a record                            *)
(*   [code, attribution, botUsername, createdAt, resolved, resolvedAt]     *)
(* with resolvedAt = NoTime while it is undefined.  The key of a stored    *)
(* mapping is its code; a code that no click issued has no row.            *)
(***************************************************************************)
MAX_CLICK_LOGS == 10000

\* memory.ts: MemoryStorage
MemStoreCode(st, m) == [st EXCEPT ![m.code] = m]
MemGetCode(st, c) == st[c]
\* A markResolved that sets the flag and no time.
MemMarkResolvedFlagOnly(st, c, t) ==
    IF st[c] # NULL
    THEN [st EXCEPT ![c] = [@ EXCEPT !.resolved = TRUE]]
    ELSE st

MemMarkResolved(st, c, t) ==
    IF st[c] # NULL
    THEN [st EXCEPT ![c] = [@ EXCEPT !.resolved = TRUE, !.resolvedAt = t]]
    ELSE st
MemDeleteCode(st, c) == [st EXCEPT ![c] = NULL]
\* A logClick that only pushes.
MemLogClickUnbounded(logs, log) == Append(logs, log)

MemLogClick(logs, log) ==
    LET pushed == Append(logs, log)
    IN  IF Len(pushed) > MAX_CLICK_LOGS THEN Tail(pushed) ELSE pushed

\* sqlite.ts: SQLiteStorage, table code_mappings and click_logs
SqlStoreCode(st, m) ==
    [st EXCEPT ![m.code] =
        [ code |-> m.code, bot_username |-> m.botUsername,
          attribution |-> JsonStringify(m.attribution),
          created_at |-> m.createdAt, resolved |-> 0, resolved_at |-> NoTime ]]
SqlGetCode(st, c) ==
    IF st[c] = NULL THEN NULL
    ELSE [ code |-> st[c].code, botUsername |-> st[c].bot_username,
           attribution |-> JsonParse(st[c].attribution),
           createdAt |-> st[c].created_at,
           resolved |-> (st[c].resolved = 1),
           resolvedAt |-> st[c].resolved_at ]
SqlMarkResolved(st, c, t) ==
    IF st[c] # NULL
    THEN [st EXCEPT ![c] = [@ EXCEPT !.resolved = 1, !.resolved_at = t]]
    ELSE st
SqlDeleteCode(st, c) == [st EXCEPT ![c] = NULL]
SqlLogClick(logs, log) == Append(logs, log)

\* The IStorage the handlers were given.
storeCode(st, m) ==
    IF backend = "memory" THEN MemStoreCode(st, m) ELSE SqlStoreCode(st, m)
getCode(st, i) ==
    IF i \notin CodeIds THEN NULL
    ELSE IF backend = "memory" THEN MemGetCode(st, i) ELSE SqlGetCode(st, i)
markResolved(st, i, t) ==
    IF i \notin CodeIds THEN st
    ELSE IF backend = "memory" THEN MemMarkResolved(st, i, t) ELSE SqlMarkResolved(st, i, t)
deleteCode(st, i) ==
    IF i \notin CodeIds THEN st
    ELSE IF backend = "memory" THEN MemDeleteCode(st, i) ELSE SqlDeleteCode(st, i)
logClick(logs, log) ==
    IF backend = "memory" THEN MemLogClick(logs, log) ELSE SqlLogClick(logs, log)

\* Whether a storage call may throw: the Map and array operations of the
\* memory backend do not, a statement of the sqlite backend may.
ThrowChoices == IF backend = "sqlite" THEN {FALSE, TRUE} ELSE {FALSE}

\* The values new Date() may return: the clock does not run backwards.
Ticks == IF now < MaxTime THEN {now, now + 1} ELSE {now}

(***************************************************************************)
(* The code cache, cache.ts: createCodeCache.  It holds references: the    *)
(* object a handler passed to set() is the object get() returns.           *)
(***************************************************************************)
ObjIds == 1..(NCodes + NProcs)

CacheGet(ca, i) == IF i \in CodeIds THEN ca[i] ELSE NoRef
\* A cache whose set() keeps nothing.
CacheSetDropped(ca, i, o) == ca
CacheSet(ca, i, o) == IF i \in CodeIds THEN [ca EXCEPT ![i] = o] ELSE ca
CacheDelete(ca, i) == IF i \in CodeIds THEN [ca EXCEPT ![i] = NoRef] ELSE ca

\* The reference of a new object.
Alloc(h) == CHOOSE o \in ObjIds : h[o] = NULL /\ \A q \in 1..(o - 1) : h[q] # NULL

\* Objects that neither the cache nor a handler refers to are gone.
Collect(h, ca, pr) ==
    [o \in ObjIds |->
        IF (\E c \in CodeIds : ca[c] = o) \/ (\E p \in Procs : pr[p].mapping = o)
        THEN h[o] ELSE NULL]

(***************************************************************************)
(* Request handlers.  A handler runs from one await to the next without    *)
(* interruption; a storage call is made (and takes effect or throws) where *)
(* the handler calls it, and the handler goes on after the await.          *)
(***************************************************************************)
IdleProc ==
    [ pc |-> "idle", kind |-> "none", input |-> 0, slug |-> "",
      mapping |-> NoRef, threw |-> FALSE, status |-> 0, body |-> NULL,
      ops |-> {}, phase |-> 0, calls |-> <<>>, failed |-> {},
      code |-> 0, attribution |-> NULL, target |-> <<>> ]

InFlight(q) == proc[q].pc # "idle"

\* A new request is served in the first slot that serves none.
Free(p) == ~InFlight(p) /\ \A q \in 1..(p - 1) : InFlight(q)

\* reply.status(status).send(body): the response leaves with what the handler
\* did for it, and the handler is over.
Reply(pr, p, status, body) ==
    /\ resp' = [pr[p] EXCEPT !.pc = "done", !.status = status, !.body = body,
                             !.mapping = NoRef, !.threw = FALSE]
    /\ proc' = [pr EXCEPT ![p] = IdleProc]

Did(pr, p, names) == [pr EXCEPT ![p].ops = @ \cup names]

\* History of a click handler: the calls it made, in their order, and those
\* of them that threw.
Called(pr, p, name, threw) ==
    [pr EXCEPT ![p].ops = @ \cup {name},
               ![p].calls = Append(@, name),
               ![p].failed = IF threw THEN @ \cup {name} ELSE @]

\* History: where the code of a request stands as the request begins.
\* 2: a resolve of it has returned 200; 1: not so, and it is stored; 0: neither.
PhaseOf(i) ==
    IF i \notin CodeIds THEN 0
    ELSE IF resolvedOk[i] THEN 2
    ELSE IF getCode(store, i) # NULL THEN 1 ELSE 0

\* A request for /r/:code or /r/:code/status begins.
BeginLookup(p, kind, i) ==
    [proc EXCEPT ![p] = [IdleProc EXCEPT !.kind = kind, !.input = i, !.phase = PhaseOf(i)]]

\* A handler that marks the code at every resolve.
NeedsMarkAlways(m) == TRUE

\* resolve.ts line 104: if (!mapping.resolved)
NeedsMark(m) == ~m.resolved

\* A handler that deletes every code it resolves when codes are one-time.
DeleteDueAlways(m) == oneTimeCodes

\* resolve.ts line 117: if (config.oneTimeCodes && !mapping.resolved)
DeleteDue(m) == oneTimeCodes /\ ~m.resolved

ResolveBody(m) == [success |-> TRUE, data |-> m.attribution]

MarkOk(i) == IF i \in CodeIds THEN [resolvedOk EXCEPT ![i] = TRUE] ELSE resolvedOk

\* resolve.ts lines 116-139: the one-time deletion, or the 200 response.
\* pr, h, ca: the handlers, the heap and the cache as the lines before left them.
ResolveTail(p, pr, h, ca) ==
    LET o == pr[p].mapping
        i == pr[p].input
    IN  IF DeleteDue(h[o])
        THEN \E threw \in ThrowChoices :
                /\ store' = IF threw THEN store ELSE deleteCode(store, i)
                /\ faulted' = (faulted \/ threw)
                /\ cache' = ca
                /\ proc' = [Did(pr, p, {"deleteCode"}) EXCEPT
                               ![p].pc = "r_deleted", ![p].threw = threw]
                /\ heap' = Collect(h, cache', proc')
                /\ resp' = IdleProc
                /\ UNCHANGED resolvedOk
        ELSE /\ store' = store
             /\ faulted' = faulted
             /\ cache' = ca
             /\ Reply(pr, p, 200, ResolveBody(h[o]))
             /\ heap' = Collect(h, cache', proc')
             /\ resolvedOk' = MarkOk(i)

\* resolve.ts lines 100-114 up to the await of markResolved.
ResolveFound(p, pr, h) ==
    LET o == pr[p].mapping
        i == pr[p].input
        ca == CacheSet(cache, i, o)
        pr1 == Did(pr, p, {"cache.set"})
    IN  IF NeedsMark(h[o])
        THEN \E threw \in ThrowChoices, t \in Ticks :
                /\ store' = IF threw THEN store ELSE markResolved(store, i, t)
                /\ faulted' = (faulted \/ threw)
                /\ now' = t
                /\ cache' = ca
                /\ proc' = [Did(pr1, p, {"markResolved"}) EXCEPT
                               ![p].pc = "r_marked", ![p].threw = threw]
                /\ heap' = Collect(h, cache', proc')
                /\ resp' = IdleProc
                /\ UNCHANGED resolvedOk
        ELSE /\ ResolveTail(p, pr1, h, ca)
             /\ UNCHANGED now

\* GET /r/:code, lines 56-90: up to the first await or to an early response.
ResolveStart(p, i) ==
    /\ Free(p)
    /\ raced' = IF i \in CodeIds /\ \E q \in Procs \ {p} :
                      InFlight(q) /\ proc[q].kind = "resolve" /\ proc[q].input = i
                THEN [raced EXCEPT ![i] = TRUE] ELSE raced
    /\ UNCHANGED <<oneTimeCodes, backend, clickLogs, nclicks, issued, wroteResolved, cx>>
    /\ LET pr0 == BeginLookup(p, "resolve", i)
       IN  IF ~FormatOk[i]
           THEN /\ Reply(pr0, p, 400, [success |-> FALSE, error |-> "Invalid code format"])
                /\ UNCHANGED <<store, cache, heap, now, faulted, resolvedOk>>
           ELSE IF ~SignatureOk[i]
           THEN /\ Reply(pr0, p, 400, [success |-> FALSE, error |-> "Invalid code"])
                /\ UNCHANGED <<store, cache, heap, now, faulted, resolvedOk>>
           ELSE IF CacheGet(cache, i) # NoRef
           THEN ResolveFound(p, [Did(pr0, p, {"cache.get"}) EXCEPT
                                    ![p].mapping = CacheGet(cache, i)], heap)
           ELSE \E threw \in ThrowChoices :
                   LET m == getCode(store, i)
                       o == IF threw \/ m = NULL THEN NoRef ELSE Alloc(heap)
                   IN  /\ proc' = [Did(pr0, p, {"cache.get", "getCode"}) EXCEPT
                                      ![p].pc = "r_got", ![p].threw = threw,
                                      ![p].mapping = o]
                       /\ heap' = IF o = NoRef THEN heap ELSE [heap EXCEPT ![o] = m]
                       /\ faulted' = (faulted \/ threw)
                       /\ resp' = IdleProc
                       /\ UNCHANGED <<store, cache, now, resolvedOk>>

\* A handler that takes a failed read for a code that is not stored.
ResolveGotNotFound(p) ==
    /\ proc[p].pc = "r_got"
    /\ UNCHANGED <<oneTimeCodes, backend, clickLogs, nclicks, issued, raced, wroteResolved, cx>>
    /\ IF proc[p].threw \/ proc[p].mapping = NoRef
       THEN /\ Reply(proc, p, 404, [success |-> FALSE, error |-> "Code not found"])
            /\ UNCHANGED <<store, cache, heap, now, faulted, resolvedOk>>
       ELSE ResolveFound(p, proc, heap)

\* GET /r/:code, lines 83-114: after the await of getCode.
ResolveGot(p) ==
    /\ proc[p].pc = "r_got"
    /\ UNCHANGED <<oneTimeCodes, backend, clickLogs, nclicks, issued, raced, wroteResolved, cx>>
    /\ IF proc[p].threw
       THEN /\ Reply(proc, p, 500, [success |-> FALSE, error |-> "Internal server error"])
            /\ UNCHANGED <<store, cache, heap, now, faulted, resolvedOk>>
       ELSE IF proc[p].mapping = NoRef
       THEN /\ Reply(proc, p, 404, [success |-> FALSE, error |-> "Code not found"])
            /\ UNCHANGED <<store, cache, heap, now, faulted, resolvedOk>>
       ELSE ResolveFound(p, proc, heap)

\* A handler that updates its mapping and the cache whether markResolved
\* threw or not.
ResolveMarkedOptimistic(p) ==
    /\ proc[p].pc = "r_marked"
    /\ UNCHANGED <<oneTimeCodes, backend, clickLogs, nclicks, issued, raced, cx>>
    /\ LET o == proc[p].mapping
           i == proc[p].input
       IN  \E t \in Ticks :
              /\ now' = t
              /\ wroteResolved' = [wroteResolved EXCEPT ![i] = TRUE]
              /\ ResolveTail(p, Did([proc EXCEPT ![p].threw = FALSE], p, {"cache.set"}),
                             [heap EXCEPT ![o] = [@ EXCEPT !.resolved = TRUE,
                                                           !.resolvedAt = t]],
                             CacheSet(cache, i, o))

\* GET /r/:code, lines 107-139: after the await of markResolved.
ResolveMarked(p) ==
    /\ proc[p].pc = "r_marked"
    /\ UNCHANGED <<oneTimeCodes, backend, clickLogs, nclicks, issued, raced, cx>>
    /\ LET o == proc[p].mapping
           i == proc[p].input
       IN  IF proc[p].threw
           THEN /\ ResolveTail(p, [proc EXCEPT ![p].threw = FALSE], heap, cache)
                /\ UNCHANGED <<now, wroteResolved>>
           ELSE \E t \in Ticks :
                   /\ now' = t
                   /\ wroteResolved' = [wroteResolved EXCEPT ![i] = TRUE]
                   /\ ResolveTail(p, Did(proc, p, {"cache.set"}),
                                  [heap EXCEPT ![o] = [@ EXCEPT !.resolved = TRUE,
                                                                !.resolvedAt = t]],
                                  CacheSet(cache, i, o))

\* GET /r/:code, lines 120-139: after the await of deleteCode.
ResolveDeleted(p) ==
    /\ proc[p].pc = "r_deleted"
    /\ UNCHANGED <<oneTimeCodes, backend, store, clickLogs, now, faulted, nclicks,
                   issued, raced, wroteResolved, cx>>
    /\ cache' = IF proc[p].threw THEN cache ELSE CacheDelete(cache, proc[p].input)
    /\ Reply(IF proc[p].threw THEN proc ELSE Did(proc, p, {"cache.delete"}),
                       p, 200, ResolveBody(heap[proc[p].mapping]))
    /\ heap' = Collect(heap, cache', proc')
    /\ resolvedOk' = MarkOk(proc[p].input)

\* The body of a 200 status response, resolve.ts lines 177-183.
StatusBody(m) ==
    [ exists |-> TRUE, resolved |-> m.resolved, createdAt |-> m.createdAt,
      resolvedAt |-> m.resolvedAt, botUsername |-> m.botUsername ]

\* GET /r/:code/status, lines 152-171: up to the await or to a response.
StatusStart(p, i) ==
    /\ Free(p)
    /\ UNCHANGED <<oneTimeCodes, backend, store, clickLogs, cache, now, nclicks,
                   issued, raced, resolvedOk, wroteResolved, cx>>
    /\ LET pr0 == BeginLookup(p, "status", i)
       IN  IF ~FormatOk[i] \/ ~SignatureOk[i]
           THEN /\ Reply(pr0, p, 400, [valid |-> FALSE])
                /\ UNCHANGED <<heap, faulted>>
           ELSE IF CacheGet(cache, i) # NoRef
           THEN /\ Reply(Did(pr0, p, {"cache.get"}), p, 200,
                                   StatusBody(heap[CacheGet(cache, i)]))
                /\ UNCHANGED <<heap, faulted>>
           ELSE \E threw \in ThrowChoices :
                   LET m == getCode(store, i)
                       o == IF threw \/ m = NULL THEN NoRef ELSE Alloc(heap)
                   IN  /\ proc' = [Did(pr0, p, {"cache.get", "getCode"}) EXCEPT
                                      ![p].pc = "s_got", ![p].threw = threw,
                                      ![p].mapping = o]
                       /\ heap' = IF o = NoRef THEN heap ELSE [heap EXCEPT ![o] = m]
                       /\ faulted' = (faulted \/ threw)
                       /\ resp' = IdleProc

\* A status handler that marks the code it found, as the resolve handler does.
StatusGotConsumes(p) ==
    /\ proc[p].pc = "s_got"
    /\ UNCHANGED <<oneTimeCodes, backend, clickLogs, cache, now, faulted, nclicks,
                   issued, raced, resolvedOk, wroteResolved, cx>>
    /\ store' = IF proc[p].threw \/ proc[p].mapping = NoRef THEN store
                ELSE markResolved(store, proc[p].input, now)
    /\ IF proc[p].threw
       THEN Reply(proc, p, 500, [valid |-> FALSE, error |-> "Internal error"])
       ELSE IF proc[p].mapping = NoRef
       THEN Reply(proc, p, 404, [exists |-> FALSE])
       ELSE Reply(proc, p, 200, StatusBody(heap[proc[p].mapping]))
    /\ heap' = Collect(heap, cache, proc')

\* GET /r/:code/status, lines 168-183: after the await of getCode.
StatusGot(p) ==
    /\ proc[p].pc = "s_got"
    /\ UNCHANGED <<oneTimeCodes, backend, store, clickLogs, cache, now, faulted, nclicks,
                   issued, raced, resolvedOk, wroteResolved, cx>>
    /\ IF proc[p].threw
       THEN Reply(proc, p, 500, [valid |-> FALSE, error |-> "Internal error"])
       ELSE IF proc[p].mapping = NoRef
       THEN Reply(proc, p, 404, [exists |-> FALSE])
       ELSE Reply(proc, p, 200, StatusBody(heap[proc[p].mapping]))
    /\ heap' = Collect(heap, cache, proc')

\* The ClickLog entry of a click, tg.ts lines 295-304; code is 0 when the
\* click issued none.
ClickLogOf(attribution, target, code) ==
    [ requestId |-> attribution.requestId, slug |-> attribution.slug,
      timestamp |-> attribution.timestamp, redirectTarget |-> target,
      code |-> code, queryParams |-> attribution.utm ]

\* A click that issues a code whatever the destination type.
IssuesCodeAlways(cfg) == TRUE

\* tg.ts line 254: if (slugConfig.type === 'bot')
IssuesCode(cfg) == cfg.type = "bot"

\* The next draw of randomBytes: the draws of a run are RandomDraw(1),
\* RandomDraw(2), ... in this order; none is left after NCodes of them.
NextDraw == {c \in CodeIds : issued[c] = NULL /\ \A d \in 1..(c - 1) : issued[d] # NULL}

\* tg.ts lines 271-277
NewMapping(k, attribution, cfg) ==
    [ code |-> k, attribution |-> attribution, botUsername |-> cfg.destination,
      createdAt |-> attribution.timestamp, resolved |-> FALSE, resolvedAt |-> NoTime ]

\* GET /tg/:slug, lines 216-292: up to the await of storeCode (bot) or of
\* logClick (public, invite), or to the 404 of an unknown or inactive slug.
\* A bot click draws 16 random bytes; a draw repeats an earlier one with
\* probability 2^-128, which the model leaves out.
ClickStart(p, slug, query) ==
    /\ Free(p)
    /\ nclicks < MaxClicks
    /\ nclicks' = nclicks + 1
    /\ UNCHANGED <<oneTimeCodes, backend, cache, heap, raced, resolvedOk, wroteResolved, cx>>
    /\ LET cfg == getSlugConfig(slug)
           pr0 == [proc EXCEPT ![p] = [IdleProc EXCEPT !.kind = "click", !.slug = slug]]
       IN  IF cfg = NULL
           THEN /\ Reply(pr0, p, 404, [error |-> "Not Found"])
                /\ UNCHANGED <<store, clickLogs, now, faulted, issued>>
           ELSE \E t \in Ticks, threw \in ThrowChoices :
                   LET attribution == [ slug |-> slug, timestamp |-> t,
                                        utm |-> extractUtmParams(query),
                                        requestId |-> nclicks + 1 ]
                       target == getDirectRedirectUrl(cfg.type, cfg.destination, <<>>)
                   IN  /\ now' = t
                       /\ faulted' = (faulted \/ threw)
                       /\ IF IssuesCode(cfg)
                          THEN \E k \in NextDraw :
                                  /\ issued' = [issued EXCEPT ![k] = NewMapping(k, attribution, cfg)]
                                  /\ store' = IF threw THEN store
                                              ELSE storeCode(store, NewMapping(k, attribution, cfg))
                                  /\ proc' = [Called(Called(pr0, p, "generateCode", FALSE),
                                                      p, "storeCode", threw) EXCEPT
                                                 ![p].pc = "c_stored", ![p].threw = threw,
                                                 ![p].code = k, ![p].attribution = attribution]
                                  /\ resp' = IdleProc
                                  /\ UNCHANGED clickLogs
                          ELSE /\ clickLogs' = IF threw THEN clickLogs
                                               ELSE logClick(clickLogs, ClickLogOf(attribution, target, 0))
                               /\ proc' = [Called(pr0, p, "logClick", threw) EXCEPT
                                              ![p].pc = "c_logged", ![p].threw = threw,
                                              ![p].attribution = attribution,
                                              ![p].target = target]
                               /\ resp' = IdleProc
                               /\ UNCHANGED <<store, issued>>

\* A handler without the try/catch around storeCode: its failure ends the
\* request with the 500 of the error handler.
ClickStoredFatal(p) ==
    /\ proc[p].pc = "c_stored"
    /\ UNCHANGED <<oneTimeCodes, backend, store, cache, heap, now, nclicks, issued,
                   raced, resolvedOk, wroteResolved, cx>>
    /\ IF proc[p].threw
       THEN /\ Reply(proc, p, 500, [error |-> "Internal Server Error"])
            /\ UNCHANGED <<faulted, clickLogs>>
       ELSE \E threw \in ThrowChoices :
          LET cfg == getSlugConfig(proc[p].slug)
              target == getDirectRedirectUrl("bot", cfg.destination, CodeOf[proc[p].code])
          IN  /\ faulted' = (faulted \/ threw)
              /\ clickLogs' = IF threw THEN clickLogs
                              ELSE logClick(clickLogs,
                                            ClickLogOf(proc[p].attribution, target, proc[p].code))
              /\ proc' = [Called(proc, p, "logClick", threw) EXCEPT
                             ![p].pc = "c_logged", ![p].threw = threw, ![p].target = target]
              /\ resp' = IdleProc

\* GET /tg/:slug, lines 281-307: after the await of storeCode.
ClickStored(p) ==
    /\ proc[p].pc = "c_stored"
    /\ UNCHANGED <<oneTimeCodes, backend, store, cache, heap, now, nclicks, issued,
                   raced, resolvedOk, wroteResolved, cx>>
    /\ \E threw \in ThrowChoices :
          LET cfg == getSlugConfig(proc[p].slug)
              target == getDirectRedirectUrl("bot", cfg.destination, CodeOf[proc[p].code])
          IN  /\ faulted' = (faulted \/ threw)
              /\ clickLogs' = IF threw THEN clickLogs
                              ELSE logClick(clickLogs,
                                            ClickLogOf(proc[p].attribution, target, proc[p].code))
              /\ proc' = [Called(proc, p, "logClick", threw) EXCEPT
                             ![p].pc = "c_logged", ![p].threw = threw, ![p].target = target]
              /\ resp' = IdleProc

\* A handler without the try/catch around logClick.
ClickLoggedFatal(p) ==
    /\ proc[p].pc = "c_logged"
    /\ UNCHANGED <<oneTimeCodes, backend, store, clickLogs, cache, heap, now, faulted,
                   nclicks, issued, raced, resolvedOk, wroteResolved, cx>>
    /\ LET cfg == getSlugConfig(proc[p].slug)
       IN  IF proc[p].threw
           THEN Reply(proc, p, 500, [error |-> "Internal Server Error"])
           ELSE IF cfg.mode = "302"
           THEN Reply(proc, p, 302, [location |-> proc[p].target])
           ELSE Reply(proc, p, 200,
                      [ html |-> cfg.type, destination |-> cfg.destination,
                        startParam |-> proc[p].code ])

\* GET /tg/:slug, lines 308-345: after the await of logClick, the response.
ClickLogged(p) ==
    /\ proc[p].pc = "c_logged"
    /\ UNCHANGED <<oneTimeCodes, backend, store, clickLogs, cache, heap, now, faulted,
                   nclicks, issued, raced, resolvedOk, wroteResolved, cx>>
    /\ LET cfg == getSlugConfig(proc[p].slug)
       IN  IF cfg.mode = "302"
           THEN Reply(proc, p, 302, [location |-> proc[p].target])
           ELSE Reply(proc, p, 200,
                      [ html |-> cfg.type, destination |-> cfg.destination,
                        startParam |-> proc[p].code ])

\* An entry leaves the cache: its TTL of five minutes ran out, or it was the
\* least recently used one when the cache was full.
CacheExpire(c) ==
    /\ cache[c] # NoRef
    /\ cache' = [cache EXCEPT ![c] = NoRef]
    /\ heap' = Collect(heap, cache', proc)
    /\ resp' = IdleProc
    /\ UNCHANGED <<oneTimeCodes, backend, store, clickLogs, proc, now, faulted,
                   nclicks, issued, raced, resolvedOk, wroteResolved, cx>>

CodecOff == [stage |-> "off"]

Init ==
    /\ oneTimeCodes \in BOOLEAN
    /\ backend \in {"memory", "sqlite"}
    /\ store = [c \in CodeIds |-> NULL]
    /\ clickLogs = <<>>
    /\ cache = [c \in CodeIds |-> NoRef]
    /\ heap = [o \in ObjIds |-> NULL]
    /\ proc = [p \in Procs |-> IdleProc]
    /\ resp = IdleProc
    /\ now = 0
    /\ faulted = FALSE
    /\ nclicks = 0
    /\ issued = [c \in CodeIds |-> NULL]
    /\ raced = [c \in CodeIds |-> FALSE]
    /\ resolvedOk = [c \in CodeIds |-> FALSE]
    /\ wroteResolved = [c \in CodeIds |-> FALSE]
    /\ cx = CodecOff

Next ==
    \/ \E p \in Procs, i \in CodeIds : ResolveStart(p, i)
    \/ \E p \in Procs : ResolveGot(p)
    \/ \E p \in Procs : ResolveMarked(p)
    \/ \E p \in Procs : ResolveDeleted(p)
    \/ \E p \in Procs, i \in CodeIds : StatusStart(p, i)
    \/ \E p \in Procs : StatusGot(p)
    \/ \E p \in Procs, slug \in {"sales"}, query \in Queries : ClickStart(p, slug, query)
    \/ \E p \in Procs : ClickStored(p)
    \/ \E p \in Procs : ClickLogged(p)
    \/ \E c \in CodeIds : CacheExpire(c)

Spec == Init /\ [][Next]_vars

(***************************************************************************)
(* The same handlers, asked for any code: an issued one, the forged one or *)
(* the malformed one.                                                      *)
(***************************************************************************)
NextReject ==
    \/ \E p \in Procs, i \in Inputs : ResolveStart(p, i)
    \/ \E p \in Procs : ResolveGot(p)
    \/ \E p \in Procs : ResolveMarked(p)
    \/ \E p \in Procs : ResolveDeleted(p)
    \/ \E p \in Procs, i \in Inputs : StatusStart(p, i)
    \/ \E p \in Procs : StatusGot(p)
    \/ \E p \in Procs, slug \in {"sales"}, query \in Queries : ClickStart(p, slug, query)
    \/ \E p \in Procs : ClickStored(p)
    \/ \E p \in Procs : ClickLogged(p)
    \/ \E c \in CodeIds : CacheExpire(c)

SpecReject == Init /\ [][NextReject]_vars

(***************************************************************************)
(* Click runs: clicks on every slug, the unknown and the inactive one      *)
(* among them.                                                             *)
(***************************************************************************)
NextClick ==
    \/ \E p \in Procs, slug \in Slugs, query \in Queries : ClickStart(p, slug, query)
    \/ \E p \in Procs : ClickStored(p)
    \/ \E p \in Procs : ClickLogged(p)

SpecClick == Init /\ [][NextClick]_vars

(***************************************************************************)
(* Retry runs: requests are served one after the other.  A caller whose    *)
(* resolve or status request was answered with an error notes the answer   *)
(* and repeats the request, before any other request is made and before    *)
(* any entry leaves the cache.                                             *)
(***************************************************************************)
Quiet == \A q \in Procs : ~InFlight(q)

\* What the cache returns for each code: the object as it is now, or NULL.
CacheView == [c \in CodeIds |-> IF cache[c] = NoRef THEN NULL ELSE heap[cache[c]]]

\* The caller notes the error it just got, and the store and the cache as
\* the request left them.
NoteError ==
    /\ cx.stage = "off"
    /\ Quiet
    /\ resp.pc = "done"
    /\ resp.kind \in {"resolve", "status"}
    /\ resp.status >= 400
    /\ cx' = [ stage |-> "noted", answer |-> resp,
               store |-> store, cached |-> CacheView ]
    /\ resp' = IdleProc
    /\ UNCHANGED <<oneTimeCodes, backend, store, clickLogs, cache, heap, proc, now,
                   faulted, nclicks, issued, raced, resolvedOk, wroteResolved>>

\* The caller gives up repeating.
Forget ==
    /\ cx.stage = "noted"
    /\ Quiet
    /\ cx' = CodecOff
    /\ UNCHANGED hvars

\* The next request: any, or the noted one again, once.
MayAsk(kind, i) ==
    /\ Quiet
    /\ cx.stage = "noted" =>
          (resp.pc = "idle" /\ cx.answer.kind = kind /\ cx.answer.input = i)

NextRetry ==
    \/ \E p \in Procs, i \in Inputs : MayAsk("resolve", i) /\ ResolveStart(p, i)
    \/ \E p \in Procs : ResolveGot(p)
    \/ \E p \in Procs : ResolveMarked(p)
    \/ \E p \in Procs : ResolveDeleted(p)
    \/ \E p \in Procs, i \in Inputs : MayAsk("status", i) /\ StatusStart(p, i)
    \/ \E p \in Procs : StatusGot(p)
    \/ \E p \in Procs, slug \in {"sales"}, query \in Queries :
          Quiet /\ cx.stage = "off" /\ ClickStart(p, slug, query)
    \/ \E p \in Procs : ClickStored(p)
    \/ \E p \in Procs : ClickLogged(p)
    \/ \E c \in CodeIds : cx.stage = "off" /\ CacheExpire(c)
    \/ NoteError
    \/ Forget

SpecRetry == Init /\ [][NextRetry]_vars

(***************************************************************************)
(* Fair runs: the handlers are asked for any code and clicked on a bot     *)
(* slug that redirects and on a public slug with a hand-off page, and      *)
(* every awaited storage call settles: the promise is fulfilled or         *)
(* rejected, and the event loop then runs the continuation of the handler. *)
(* Cache entries leave the cache between requests.                         *)
(***************************************************************************)
NextLive ==
    \/ \E p \in Procs, i \in Inputs : ResolveStart(p, i)
    \/ \E p \in Procs : ResolveGot(p)
    \/ \E p \in Procs : ResolveMarked(p)
    \/ \E p \in Procs : ResolveDeleted(p)
    \/ \E p \in Procs, i \in Inputs : StatusStart(p, i)
    \/ \E p \in Procs : StatusGot(p)
    \/ \E p \in Procs, slug \in {"sales", "community"},
             query \in {q \in Queries : DOMAIN q = {K_utm_source}} :
          ClickStart(p, slug, query)
    \/ \E p \in Procs : ClickStored(p)
    \/ \E p \in Procs : ClickLogged(p)
    \/ \E c \in CodeIds : Quiet /\ CacheExpire(c)

Settles ==
    \A p \in Procs :
        /\ WF_vars(ResolveGot(p))
        /\ WF_vars(ResolveMarked(p))
        /\ WF_vars(ResolveDeleted(p))
        /\ WF_vars(StatusGot(p))
        /\ WF_vars(ClickStored(p))
        /\ WF_vars(ClickLogged(p))

SpecLive == Init /\ [][NextLive]_vars /\ Settles

(***************************************************************************)
(* Observed runs: a caller of the status check keeps the resolvedAt of one *)
(* answer that reported the code resolved, and goes on asking.             *)
(***************************************************************************)
NoteStatus ==
    /\ cx.stage = "off"
    /\ resp.pc = "done"
    /\ resp.kind = "status"
    /\ resp.status = 200
    /\ resp.body.resolved
    /\ cx' = [stage |-> "seen", input |-> resp.input, resolvedAt |-> resp.body.resolvedAt]
    /\ UNCHANGED hvars

NextSeen ==
    \/ \E p \in Procs, i \in CodeIds : ResolveStart(p, i)
    \/ \E p \in Procs : ResolveGot(p)
    \/ \E p \in Procs : ResolveMarked(p)
    \/ \E p \in Procs : ResolveDeleted(p)
    \/ \E p \in Procs, i \in CodeIds : StatusStart(p, i)
    \/ \E p \in Procs : StatusGot(p)
    \/ \E p \in Procs, slug \in {"sales"}, query \in Queries : ClickStart(p, slug, query)
    \/ \E p \in Procs : ClickStored(p)
    \/ \E p \in Procs : ClickLogged(p)
    \/ \E c \in CodeIds : CacheExpire(c)
    \/ NoteStatus

SpecSeen == Init /\ [][NextSeen]_vars

(***************************************************************************)
(* Bot click runs: a visitor clicks a bot slug, keeps what the answer      *)
(* carried, and the bot then resolves codes.                               *)
(***************************************************************************)
NoteClick ==
    /\ cx.stage = "off"
    /\ resp.pc = "done"
    /\ resp.kind = "click"
    /\ resp.code # 0
    /\ cx' = [stage |-> "clicked", code |-> resp.code, failed |-> resp.failed]
    /\ UNCHANGED hvars

NextBot ==
    \/ \E p \in Procs, slug \in BotSlugs, query \in Queries : ClickStart(p, slug, query)
    \/ \E p \in Procs : ClickStored(p)
    \/ \E p \in Procs : ClickLogged(p)
    \/ NoteClick
    \/ \E p \in Procs, i \in CodeIds : ResolveStart(p, i)
    \/ \E p \in Procs : ResolveGot(p)
    \/ \E p \in Procs : ResolveMarked(p)
    \/ \E p \in Procs : ResolveDeleted(p)

SpecBot == Init /\ [][NextBot]_vars

(***************************************************************************)
(* Codec runs: a code is generated from a draw of random bytes and         *)
(* validated, as it is or with one character replaced.                     *)
(***************************************************************************)
Draws == 1..NDraws

\* Every character, inside [A-Za-z0-9_-] (0..63) or outside (64).
AnyChar == 0..64

CodecInit ==
    /\ oneTimeCodes = FALSE
    /\ backend = "memory"
    /\ store = [c \in CodeIds |-> NULL]
    /\ clickLogs = <<>>
    /\ cache = [c \in CodeIds |-> NoRef]
    /\ heap = [o \in ObjIds |-> NULL]
    /\ proc = [p \in Procs |-> IdleProc]
    /\ resp = IdleProc
    /\ now = 0
    /\ faulted = FALSE
    /\ nclicks = 0
    /\ issued = [c \in CodeIds |-> NULL]
    /\ raced = [c \in CodeIds |-> FALSE]
    /\ resolvedOk = [c \in CodeIds |-> FALSE]
    /\ wroteResolved = [c \in CodeIds |-> FALSE]
    /\ cx = CodecOff

\* const code = generateCode()
CodecGenerate(k) ==
    /\ cx.stage = "off"
    /\ cx' = [ stage |-> "generated", draw |-> k,
               threw |-> generateCode(RandomDraw(k)).threw,
               code |-> generateCode(RandomDraw(k)).code ]
    /\ UNCHANGED hvars

\* validateCode(code)
CodecValidate ==
    /\ cx.stage = "generated"
    /\ ~cx.threw
    /\ cx' = [ stage |-> "validated", draw |-> cx.draw, code |-> cx.code,
               valid |-> validateCode(cx.code) ]
    /\ UNCHANGED hvars

\* validateCode(code.slice(0, pos - 1) + ch + code.slice(pos)), ch another character
CodecValidateTampered(pos, ch) ==
    /\ cx.stage = "generated"
    /\ ~cx.threw
    /\ pos \in 1..Len(cx.code)
    /\ ch # cx.code[pos]
    /\ cx' = [ stage |-> "tampered", draw |-> cx.draw, pos |-> pos,
               code |-> [cx.code EXCEPT ![pos] = ch],
               valid |-> validateCode([cx.code EXCEPT ![pos] = ch]) ]
    /\ UNCHANGED hvars

CodecNext ==
    \/ \E k \in Draws : CodecGenerate(k)
    \/ CodecValidate
    \/ \E pos \in 1..MAX_CODE_LENGTH, ch \in AnyChar : CodecValidateTampered(pos, ch)

SpecCodec == CodecInit /\ [][CodecNext]_vars

(***************************************************************************)
(* URL runs: getDirectRedirectUrl is applied to a destination type, a      *)
(* destination and a start parameter.                                      *)
(***************************************************************************)
DestinationTypes == {"bot", "public", "invite"}

UrlChars == {0, 63, CH_SPACE, CH_PLUS, CH_DOT, CH_PERCENT}

\* The texts of at most MaxUrlLen characters; <<>> is also the start
\* parameter of a call that passes none.
UrlTexts == UNION {[1..n -> UrlChars] : n \in 0..MaxUrlLen}

\* The shared state of a run that serves no request.
AtRest ==
    /\ oneTimeCodes = FALSE
    /\ backend = "memory"
    /\ store = [c \in CodeIds |-> NULL]
    /\ clickLogs = <<>>
    /\ cache = [c \in CodeIds |-> NoRef]
    /\ heap = [o \in ObjIds |-> NULL]
    /\ proc = [p \in Procs |-> IdleProc]
    /\ resp = IdleProc
    /\ now = 0
    /\ faulted = FALSE
    /\ nclicks = 0
    /\ issued = [c \in CodeIds |-> NULL]
    /\ raced = [c \in CodeIds |-> FALSE]
    /\ resolvedOk = [c \in CodeIds |-> FALSE]
    /\ wroteResolved = [c \in CodeIds |-> FALSE]

UrlInit ==
    /\ AtRest
    /\ cx \in [ stage : {"args"}, type : DestinationTypes,
                destination : UrlTexts, startParam : UrlTexts ]

\* getDirectRedirectUrl(type, destination, startParam)
UrlBuild ==
    /\ cx.stage = "args"
    /\ cx' = [ stage |-> "built", type |-> cx.type, destination |-> cx.destination,
               startParam |-> cx.startParam,
               url |-> getDirectRedirectUrl(cx.type, cx.destination, cx.startParam) ]
    /\ UNCHANGED hvars

UrlNext == UrlBuild

SpecUrl == UrlInit /\ [][UrlNext]_vars

(***************************************************************************)
(* Format runs: isValidCodeFormat and validateCode are applied to a value: *)
(* null, undefined, or a text.                                             *)
(***************************************************************************)
\* The texts: n times a character of the class, one of them replaced or not
\* by a character outside the class.
FillChars == {26, 63}
BadChars == {64, CH_SPACE}
BadAt(n) == {0} \cup ({1, (n + 1) \div 2, n} \cap (1..n))
PlainTexts ==
    { [i \in 1..n |-> IF i = pos THEN bad ELSE fill] :
        <<n, fill, pos, bad>> \in
            {q \in (0..(MAX_CODE_LENGTH + MaxOver)) \X FillChars
                        \X (0..(MAX_CODE_LENGTH + MaxOver)) \X BadChars :
                q[3] \in BadAt(q[1]) /\ (q[3] = 0 => q[4] = 64)} }

\* The texts of 'a' and '!' among them with the signature this service
\* gives them, and the codes generateCode returns.
CheckedTexts ==
    PlainTexts
    \cup {t \o createSignature(t) :
            t \in {u \in PlainTexts :
                      /\ Len(u) <= MAX_CODE_LENGTH + MaxOver - SIGNATURE_LENGTH
                      /\ \A i \in 1..Len(u) : u[i] \in {26, 64}}}
    \cup {generateCode(RandomDraw(k)).code : k \in Draws}

FormatArgs ==
    {[type |-> "null", chars |-> <<>>], [type |-> "undefined", chars |-> <<>>]}
    \cup {[type |-> "string", chars |-> t] : t \in CheckedTexts}

FormatInit ==
    /\ AtRest
    /\ cx \in [stage : {"arg"}, arg : FormatArgs]

\* isValidCodeFormat(arg), validateCode(arg)
FormatCheck ==
    /\ cx.stage = "arg"
    /\ cx' = [ stage |-> "checked", arg |-> cx.arg,
               format |-> isValidCodeFormatOf(cx.arg),
               valid |-> validateCodeOf(cx.arg) ]
    /\ UNCHANGED hvars

FormatNext == FormatCheck

SpecFormat == FormatInit /\ [][FormatNext]_vars

(***************************************************************************)
(* Parameter runs: the click handler reads the parameters of a query,      *)
(* routes/redirect.ts lines 239-240, and merges them into the queryParams  *)
(* of the click log, line 303.                                             *)
(***************************************************************************)
\* The queries of at most MaxParams parameters with these keys, each with no
\* value or one of two values.
ParamQueries ==
    LET longKey == [i \in 1..(MAX_PARAM_KEY_LENGTH + 2) |->
                       IF i = 1 THEN "o"
                       ELSE IF i = 2 THEN "n"
                       ELSE IF i = MAX_PARAM_KEY_LENGTH + 1 THEN "-"
                       ELSE "a"]
        keys == { K_utm_source, K_utm_medium,
                  <<"r","e","f">>,
                  <<"r","e","f","-","i","d">>,
                  <<"u","t","m","_","s","o","u","r","c","e","!">>,
                  <<"U","T","M","_","S","O","U","R","C","E">>,
                  <<"o","n","c","l","i","c","k">>,
                  <<"O","N","L","O","A","D">>,
                  <<"o","n"," ","c","l","i","c","k">>,
                  <<"c","o","n","s","t","r","u","c","t","o","r">>,
                  <<"c","o","n","s","t","r","u","c","t","o","r","!">>,
                  <<"_","_","p","r","o","t","o","_","_">>,
                  <<"_","_","p","r","o","t","o","_","_","!">>,
                  <<"j","a","v","a","s","c","r","i","p","t",":","x">>,
                  <<"!">>,
                  longKey }
        values == {<<>>, <<"a">>, <<"b", "<">>}
        Apart(d) == \A k1, k2 \in d \ UTM_PARAMS :
                       k1 # k2 => sanitizeParamKey(k1) # sanitizeParamKey(k2)
    IN  UNION {[d -> values] :
                  d \in {e \in SUBSET keys : Cardinality(e) <= MaxParams /\ Apart(e)}}

ParamsInit ==
    /\ AtRest
    /\ cx \in [stage : {"query"}, query : ParamQueries]

\* extractUtmParams(query), extractExtraParams(query) and
\* { ...utmParams, ...extraParams }
ParamsExtract ==
    /\ cx.stage = "query"
    /\ LET utmParams == extractUtmParams(cx.query)
           extraParams == extractExtraParams(cx.query)
       IN  cx' = [ stage |-> "extracted", query |-> cx.query,
                   utm |-> utmParams, extra |-> extraParams,
                   queryParams |->
                       [k \in DOMAIN utmParams \cup DOMAIN extraParams |->
                           IF k \in DOMAIN extraParams THEN extraParams[k]
                           ELSE utmParams[k]] ]
    /\ UNCHANGED hvars

ParamsNext == ParamsExtract

SpecParams == ParamsInit /\ [][ParamsNext]_vars

(***************************************************************************)
(* Storage runs: a caller makes the calls of the IStorage contract on a    *)
(* MemoryStorage and on a SQLiteStorage side by side, keeps the objects it *)
(* passed and the objects it received, and may write to them.              *)
(*                                                                         *)
(* Here the objects of MemoryStorage are objects: objs is the heap, a      *)
(* reference is an index of it, and a CodeMapping refers to its            *)
(* attribution, a ClickLog to its queryParams.  The handlers above write   *)
(* only to the first level of the copies getCode returned to them, which   *)
(* is why MemGetCode can hand them values.  SQLiteStorage keeps rows of    *)
(* texts and numbers, which are values.                                    *)
(***************************************************************************)
\* The value of an object with the object it refers to, as JSON would show it.
ViewOf(objs, r) ==
    IF r = NoRef THEN NULL
    ELSE IF "attribution" \in DOMAIN objs[r]
    THEN [objs[r] EXCEPT !.attribution = objs[@]]
    ELSE [objs[r] EXCEPT !.queryParams = objs[@]]

\* memory.ts: a call of MemoryStorage.  s.map is codeMappings, s.logs is
\* clickLogs, arg is the reference of the object passed, t is new Date().
\* The result is a reference, a list of references, or nothing.
MemoryStorage(s, call, arg, t) ==
    LET fresh == Len(s.objs) + 1
        stored == s.map[call.code]
        OfSlug(r) == s.objs[r].slug = call.slug
        \* Array.prototype.slice(start): a negative start counts from the end
        Slice(seq, start) ==
            LET from == IF start < 0
                        THEN (IF Len(seq) + start > 0 THEN Len(seq) + start ELSE 0)
                        ELSE Min(start, Len(seq))
            IN  SubSeq(seq, from + 1, Len(seq))
        \* Array.prototype.reverse()
        Reverse(seq) == [i \in 1..Len(seq) |-> seq[Len(seq) + 1 - i]]
    IN  CASE call.op = "storeCode" ->
                [ objs |-> Append(s.objs, s.objs[arg]),
                  map |-> [s.map EXCEPT ![s.objs[arg].code] = fresh],
                  logs |-> s.logs, result |-> NULL, threw |-> FALSE ]
          [] call.op = "getCode" ->
                [ objs |-> IF stored # NoRef THEN Append(s.objs, s.objs[stored])
                                             ELSE s.objs,
                  map |-> s.map, logs |-> s.logs,
                  result |-> IF stored # NoRef THEN fresh ELSE NoRef,
                  threw |-> FALSE ]
          [] call.op = "markResolved" ->
                [ objs |-> IF stored # NoRef
                           THEN [s.objs EXCEPT ![stored] =
                                    [@ EXCEPT !.resolved = TRUE, !.resolvedAt = t]]
                           ELSE s.objs,
                  map |-> s.map, logs |-> s.logs, result |-> NULL, threw |-> FALSE ]
          [] call.op = "deleteCode" ->
                [ objs |-> s.objs, map |-> [s.map EXCEPT ![call.code] = NoRef],
                  logs |-> s.logs, result |-> NULL, threw |-> FALSE ]
          [] call.op = "logClick" ->
                [ objs |-> Append(s.objs, s.objs[arg]), map |-> s.map,
                  logs |-> MemLogClick(s.logs, fresh),
                  result |-> NULL, threw |-> FALSE ]
          [] call.op = "getClickLogs" ->
                [ objs |-> s.objs, map |-> s.map, logs |-> s.logs,
                  result |-> Reverse(Slice(SelectSeq(s.logs, OfSlug), 0 - call.limit)),
                  threw |-> FALSE ]

\* getClickLogsStmt: WHERE slug = ? ORDER BY timestamp DESC LIMIT ?.  The
\* rows of equal timestamp come in an order SQL leaves open: the set of the
\* lists the statement may return.
SqlGetClickLogs(clicks, slug, limit) ==
    LET match == {i \in 1..Len(clicks) : clicks[i].slug = slug}
        k == Min(limit, Cardinality(match))
    IN  { [j \in 1..k |-> clicks[pick[j]]] :
            pick \in { q \in [1..k -> match] :
                         /\ \A a, b \in 1..k : a < b =>
                               /\ q[a] # q[b]
                               /\ clicks[q[a]].timestamp >= clicks[q[b]].timestamp
                         /\ \A i \in match :
                               (\A a \in 1..k : q[a] # i) =>
                                  \A a \in 1..k :
                                     clicks[i].timestamp <= clicks[q[a]].timestamp } }

\* sqlite.ts: a call of SQLiteStorage.  s.rows is code_mappings, s.clicks is
\* click_logs in the order of their ids, value is the object passed.  code
\* is the PRIMARY KEY of code_mappings: the INSERT of a code that has a row
\* fails.  results is the set of the results the call may give.
SQLiteStorage(s, call, value, t) ==
    CASE call.op = "storeCode" ->
            IF s.rows[value.code] # NULL
            THEN [rows |-> s.rows, clicks |-> s.clicks, results |-> {NULL}, threw |-> TRUE]
            ELSE [ rows |-> SqlStoreCode(s.rows, value), clicks |-> s.clicks,
                   results |-> {NULL}, threw |-> FALSE ]
      [] call.op = "getCode" ->
            [ rows |-> s.rows, clicks |-> s.clicks,
              results |-> {SqlGetCode(s.rows, call.code)}, threw |-> FALSE ]
      [] call.op = "markResolved" ->
            [ rows |-> SqlMarkResolved(s.rows, call.code, t), clicks |-> s.clicks,
              results |-> {NULL}, threw |-> FALSE ]
      [] call.op = "deleteCode" ->
            [ rows |-> SqlDeleteCode(s.rows, call.code), clicks |-> s.clicks,
              results |-> {NULL}, threw |-> FALSE ]
      [] call.op = "logClick" ->
            [ rows |-> s.rows, clicks |-> SqlLogClick(s.clicks, value),
              results |-> {NULL}, threw |-> FALSE ]
      [] call.op = "getClickLogs" ->
            [ rows |-> s.rows, clicks |-> s.clicks,
              results |-> SqlGetClickLogs(s.clicks, call.slug, call.limit),
              threw |-> FALSE ]

\* What the reads of each backend return for every code and for the whole
\* click log, as things stand.
MemoryView(s) ==
    [ codes |-> [c \in CodeIds |-> ViewOf(s.objs, s.map[c])],
      logs |-> [i \in 1..Len(s.logs) |-> ViewOf(s.objs, s.logs[i])] ]
SqliteView(s) ==
    [ codes |-> [c \in CodeIds |-> SqlGetCode(s.rows, c)], logs |-> s.clicks ]

StoreInit ==
    /\ AtRest
    /\ cx = [ stage |-> "store", objs |-> <<>>,
              map |-> [c \in CodeIds |-> NoRef], logs |-> <<>>,
              rows |-> [c \in CodeIds |-> NULL], clicks |-> <<>>,
              held |-> {}, time |-> 0, n |-> 0, out |-> [op |-> "none"] ]

\* One call, made on both backends.  out keeps the call, whether it repeats
\* the call before it, what each backend returned and whether it threw, and
\* what the reads of each backend returned before the call.
StoreCall(op, code, resolved, slug, timestamp, limit) ==
    /\ cx.stage = "store"
    /\ cx.n < MaxCalls
    /\ \E t \in IF op = "markResolved"
                THEN {cx.time, Min(cx.time + 1, MaxTime)} ELSE {cx.time} :
          LET \* the call with its arguments, those it does not take at 0
              call == [ op |-> op, code |-> code, resolved |-> resolved,
                        slug |-> slug, timestamp |-> timestamp, limit |-> limit ]
              \* the objects the caller builds for the call: the object it
              \* passes comes last, after the object that one refers to
              passed ==
                CASE call.op = "storeCode" ->
                        << [ slug |-> "sales", timestamp |-> cx.time,
                             requestId |-> cx.n + 1,
                             utm |-> [k \in {K_utm_source} |-> <<"l", "i">>] ],
                           [ code |-> call.code, attribution |-> Len(cx.objs) + 1,
                             botUsername |-> D_SalesBot, createdAt |-> cx.time,
                             resolved |-> call.resolved,
                             resolvedAt |-> IF call.resolved THEN cx.time ELSE NoTime ] >>
                  [] call.op = "logClick" ->
                        << [k \in {K_utm_source} |-> <<"l", "i">>],
                           [ requestId |-> cx.n + 1, slug |-> call.slug,
                             timestamp |-> call.timestamp,
                             redirectTarget |-> <<URL_BASE>>, code |-> 0,
                             queryParams |-> Len(cx.objs) + 1 ] >>
                  [] OTHER -> <<>>
              objs1 == cx.objs \o passed
              arg == IF passed = <<>> THEN NoRef ELSE Len(objs1)
              mem == MemoryStorage([objs |-> objs1, map |-> cx.map, logs |-> cx.logs],
                                   call, arg, t)
              sql == SQLiteStorage([rows |-> cx.rows, clicks |-> cx.clicks],
                                   call, ViewOf(objs1, arg), t)
              got == CASE call.op = "getCode" -> {mem.result} \ {NoRef}
                       [] call.op = "getClickLogs" ->
                             {mem.result[i] : i \in 1..Len(mem.result)}
                       [] OTHER -> {arg} \ {NoRef}
              shown == CASE call.op = "getCode" -> ViewOf(mem.objs, mem.result)
                         [] call.op = "getClickLogs" ->
                               [i \in 1..Len(mem.result) |->
                                   ViewOf(mem.objs, mem.result[i])]
                         [] OTHER -> NULL
          IN  \E res \in sql.results :
                 cx' = [ stage |-> "store", objs |-> mem.objs, map |-> mem.map,
                         logs |-> mem.logs, rows |-> sql.rows, clicks |-> sql.clicks,
                         held |-> cx.held \cup got, time |-> t, n |-> cx.n + 1,
                         out |-> [ op |-> call.op, call |-> call,
                                   repeats |-> (cx.out.op = call.op /\ cx.out.call = call),
                                   mem |-> shown, memThrew |-> mem.threw,
                                   sql |-> res, sqlThrew |-> sql.threw,
                                   memBefore |-> MemoryView(cx),
                                   sqlBefore |-> SqliteView(cx) ] ]
    /\ UNCHANGED hvars

\* The caller writes to an object it holds (own), or to the object that one
\* refers to (nested).
Mutate(r, part) ==
    /\ cx.stage = "store"
    /\ cx.n < MaxCalls
    /\ r \in cx.held
    /\ LET mapping == "attribution" \in DOMAIN cx.objs[r]
           inner == IF mapping THEN cx.objs[r].attribution ELSE cx.objs[r].queryParams
           objs1 == CASE part = "own" /\ mapping ->
                            [cx.objs EXCEPT ![r].botUsername = <<>>]
                      [] part = "own" /\ ~mapping ->
                            [cx.objs EXCEPT ![r].redirectTarget = <<>>]
                      [] part = "nested" /\ mapping ->
                            [cx.objs EXCEPT ![inner].slug = "tampered"]
                      [] part = "nested" /\ ~mapping ->
                            [cx.objs EXCEPT ![inner] = [k \in DOMAIN @ |-> <<>>]]
       IN  /\ objs1 # cx.objs
           /\ cx' = [cx EXCEPT !.objs = objs1, !.n = @ + 1,
                               !.out = [ op |-> "mutate", object |-> r, part |-> part,
                                         memBefore |-> MemoryView(cx),
                                         sqlBefore |-> SqliteView(cx) ]]
    /\ UNCHANGED hvars

StoreNext ==
    \/ \E c \in CodeIds, r \in BOOLEAN : StoreCall("storeCode", c, r, "", 0, 0)
    \/ \E c \in CodeIds : StoreCall("getCode", c, FALSE, "", 0, 0)
    \/ \E c \in CodeIds : StoreCall("markResolved", c, FALSE, "", 0, 0)
    \/ \E c \in CodeIds : StoreCall("deleteCode", c, FALSE, "", 0, 0)
    \/ \E slug \in {"sales", "support"}, ts \in 0..MaxTime :
          StoreCall("logClick", 0, FALSE, slug, ts, 0)
    \/ \E slug \in {"sales", "support"}, limit \in 0..MaxLimit :
          StoreCall("getClickLogs", 0, FALSE, slug, 0, limit)
    \/ \E r \in 1..(4 * MaxCalls), part \in {"own", "nested"} : Mutate(r, part)

SpecStore == StoreInit /\ [][StoreNext]_vars

(***************************************************************************)
(* Click log runs: MemoryStorage.logClick is called again and again on a   *)
(* click log that is at most MaxNear entries away from MAX_CLICK_LOGS.  An  *)
(* entry is the number of the logClick call that logged it.                *)
(***************************************************************************)
CapInit ==
    /\ AtRest
    /\ \E n \in (MAX_CLICK_LOGS - MaxNear)..MAX_CLICK_LOGS :
          cx = [stage |-> "cap", logs |-> [i \in 1..n |-> i], logged |-> n]

\* await storage.logClick(log), memory backend
CapLogClick ==
    /\ cx.stage = "cap"
    /\ cx.logged < MAX_CLICK_LOGS + MaxNear
    /\ cx' = [ stage |-> "cap", logs |-> MemLogClick(cx.logs, cx.logged + 1),
               logged |-> cx.logged + 1 ]
    /\ UNCHANGED hvars

CapNext == CapLogClick

SpecCap == CapInit /\ [][CapNext]_vars

(***************************************************************************)
(* Properties of the code lifecycle, checked on Spec.                      *)
(***************************************************************************)

\* C1: resolve-once.  With the one-time policy disabled and a store that
\* does not fail, a resolve of a stored code answers 200 and leaves the stored
\* mapping resolved with resolvedAt set, the first time and every later time;
\* and where resolves follow one another, the resolvedAt the first resolution
\* stored is the one the mapping keeps.
ResolveOnce ==
    /\ [](resp.pc = "done" /\ resp.kind = "resolve" /\ resp.phase >= 1
             /\ ~oneTimeCodes /\ ~faulted
          => /\ resp.status = 200
             /\ getCode(store, resp.input) # NULL
             /\ getCode(store, resp.input).resolved
             /\ getCode(store, resp.input).resolvedAt # NoTime)
    /\ [][\A c \in CodeIds :
             ~oneTimeCodes /\ ~raced'[c]
             /\ getCode(store, c) # NULL /\ getCode(store, c).resolved
             => /\ getCode(store', c) # NULL
                /\ getCode(store', c).resolved
                /\ getCode(store', c).resolvedAt = getCode(store, c).resolvedAt]_vars

\* A second resolve has answered, later than the time the first one stored.
ResolvedTwice ==
    /\ resp.pc = "done" /\ resp.kind = "resolve" /\ resp.phase = 2
    /\ resp.status = 200
    /\ ~oneTimeCodes /\ ~faulted /\ ~raced[resp.input]
    /\ getCode(store, resp.input).resolved
    /\ now > getCode(store, resp.input).resolvedAt

\* C2: one-time use.  With the one-time policy enabled and a store that does
\* not fail, a resolve that begins after a resolve of the same code has
\* answered 200, and overlaps no other, answers 404.
OneTimeUse ==
    resp.pc = "done" /\ resp.kind = "resolve" /\ resp.phase = 2
    /\ oneTimeCodes /\ ~faulted /\ ~raced[resp.input]
    => resp.status = 404

\* C3: cache-aside consistency.  Every 200 of a resolve carries the
\* attribution the click stored for the code, and the stored mapping and the
\* cached one keep that attribution through every step.
CacheAsideConsistency ==
    /\ resp.pc = "done" /\ resp.kind = "resolve" /\ resp.status = 200
       => resp.body.data = issued[resp.input].attribution
    /\ \A c \in CodeIds :
          /\ getCode(store, c) # NULL
             => getCode(store, c).attribution = issued[c].attribution
          /\ cache[c] # NoRef
             => heap[cache[c]].attribution = issued[c].attribution

\* A resolve answered from the sqlite store after the entry a first resolve
\* cached was gone, with UTM parameters in the attribution.
ResolvedFromStoreAgain ==
    /\ resp.pc = "done" /\ resp.kind = "resolve" /\ resp.status = 200
    /\ resp.phase = 2 /\ "getCode" \in resp.ops
    /\ backend = "sqlite"
    /\ DOMAIN resp.body.data.utm # {}

\* C4: with the one-time policy disabled and a store that does not fail, a
\* status check that begins after a resolve of the code has answered 200
\* answers exists, resolved, and the botUsername stored with the mapping.
StatusAfterResolve ==
    resp.pc = "done" /\ resp.kind = "status" /\ resp.phase = 2
    /\ ~oneTimeCodes /\ ~faulted
    => /\ resp.status = 200
       /\ resp.body.exists
       /\ resp.body.resolved
       /\ resp.body.botUsername = issued[resp.input].botUsername

\* C5: the status check does not consume.  No step of a status handler
\* changes the store or the cache, and a status response was produced by
\* cache.get and getCode alone.
StatusDoesNotConsume ==
    [][ (\/ resp'.pc = "done" /\ resp'.kind = "status"
         \/ \E p \in Procs : proc'[p].kind = "status" /\ proc'[p] # proc[p])
        => /\ store' = store
           /\ cache' = cache
           /\ resp'.pc = "done" => resp'.ops \subseteq {"cache.get", "getCode"} ]_vars

\* A status check answered for a stored code that is unresolved, and the
\* stored mapping is unresolved after it.
StatusOfUnresolved ==
    /\ resp.pc = "done" /\ resp.kind = "status" /\ resp.status = 200
    /\ ~resp.body.resolved
    /\ "getCode" \in resp.ops
    /\ getCode(store, resp.input) # NULL
    /\ ~getCode(store, resp.input).resolved

\* C6: monotonic lifecycle.  A code that the store shows resolved is not
\* shown unresolved by the store after any step, and a code that the cache
\* shows resolved is not shown unresolved by the cache after any step.
MonotonicLifecycle ==
    [][\A c \in CodeIds :
          /\ getCode(store, c) # NULL /\ getCode(store, c).resolved
             => ~(getCode(store', c) # NULL /\ ~getCode(store', c).resolved)
          /\ cache[c] # NoRef /\ heap[cache[c]].resolved
             => ~(cache'[c] # NoRef /\ ~heap'[cache'[c]].resolved)]_vars

\* C7: cache freshness.  Once a resolve of this process has completed
\* markResolved and written resolved = true to the cache, an entry the
\* cache holds for the code is resolved.
CacheFreshness ==
    \A c \in CodeIds :
        wroteResolved[c] /\ cache[c] # NoRef => heap[cache[c]].resolved

(***************************************************************************)
(* Properties of the codec, checked on SpecCodec.                          *)
(***************************************************************************)

\* C8: round trip.  validateCode accepts every code generateCode returned.
RoundTrip ==
    cx.stage = "validated" => cx.valid

\* A generated code has been validated and accepted.
GeneratedAccepted ==
    cx.stage = "validated" /\ cx.valid /\ Len(cx.code) > SIGNATURE_LENGTH

\* C9: tamper detection.  validateCode rejects a generated code in which
\* the character at one position, of the payload or of the signature, was
\* replaced by another character.
TamperDetection ==
    cx.stage = "tampered" => ~cx.valid

\* A character of the signature was replaced by another URL-safe character,
\* and the code was rejected.
SignatureTampered ==
    /\ cx.stage = "tampered" /\ ~cx.valid
    /\ cx.pos > Len(cx.code) - SIGNATURE_LENGTH
    /\ cx.pos < Len(cx.code)
    /\ AllUrlSafe(cx.code)

\* C10: a code generateCode returned has at most MAX_CODE_LENGTH characters,
\* all of them in [A-Za-z0-9_-]; generateCode returns no code when it throws.
GeneratedCodeShape ==
    cx.stage = "generated" =>
        IF cx.threw THEN cx.code = <<>>
        ELSE Len(cx.code) <= MAX_CODE_LENGTH /\ AllUrlSafe(cx.code)

\* generateCode returned a code: the random part and the signature.
CodeGenerated ==
    /\ cx.stage = "generated" /\ ~cx.threw
    /\ Len(cx.code) = Len(generateRandomPart(RandomDraw(cx.draw))) + SIGNATURE_LENGTH

(***************************************************************************)
(* Properties of the redirect URL, checked on SpecUrl.                     *)
(***************************************************************************)

\* The URL with the destination and the start parameter written into it as
\* they are.
LiteralUrl(type, destination, startParam) ==
    IF type = "bot" /\ Len(startParam) > 0
    THEN <<URL_BASE>> \o destination \o <<URL_START>> \o startParam
    ELSE IF type = "invite"
    THEN <<URL_BASE, CH_PLUS>> \o destination
    ELSE <<URL_BASE>> \o destination

\* decodeURIComponent of an encoded text.
RECURSIVE decodeURIComponent(_)
decodeURIComponent(text) ==
    IF Len(text) = 0 THEN <<>>
    ELSE IF Head(text) = CH_PERCENT /\ Len(text) >= 3
    THEN << IF text[3] = 52 THEN CH_SPACE
            ELSE IF text[3] = 1 THEN CH_PLUS ELSE CH_PERCENT >>
         \o decodeURIComponent(SubSeq(text, 4, Len(text)))
    ELSE <<Head(text)>> \o decodeURIComponent(Tail(text))

\* Where the text after 'https://t.me/' (and the '+' of an invite) begins,
\* and where '?start=' stands in a URL (past its end when it has none).
PathFrom(type) == IF type = "invite" THEN 3 ELSE 2
StartAt(url) ==
    IF \E i \in 1..Len(url) : url[i] = URL_START
    THEN CHOOSE i \in 1..Len(url) : url[i] = URL_START /\ \A j \in 1..(i - 1) : url[j] # URL_START
    ELSE Len(url) + 1

\* C19, as stated: the URL is https://t.me/<dest>?start=<code> for a bot with
\* a start parameter, https://t.me/<dest> for a bot without one and for a
\* public destination, https://t.me/+<dest> for an invite, with the
\* destination and the code as they were passed.
DirectUrlLiteral ==
    cx.stage = "built" => cx.url = LiteralUrl(cx.type, cx.destination, cx.startParam)

\* C19, amended: the URL has these three forms with the destination and the
\* start parameter percent-encoded: no space, '+' or '%' of theirs stands in
\* it unescaped, decoding gives them back, '?start=' is there exactly for a
\* bot with a non-empty start parameter, and where they hold only characters
\* of [A-Za-z0-9_.-] the URL is the literal one.
DirectUrlEncoded ==
    cx.stage = "built" =>
        LET url == cx.url
            path == SubSeq(url, PathFrom(cx.type), StartAt(url) - 1)
            query == SubSeq(url, StartAt(url) + 1, Len(url))
            given == cx.type = "bot" /\ Len(cx.startParam) > 0
        IN  /\ url[1] = URL_BASE
            /\ cx.type = "invite" => url[2] = CH_PLUS
            /\ (StartAt(url) <= Len(url)) <=> given
            /\ \A i \in 1..Len(path) : path[i] \notin {CH_SPACE, CH_PLUS}
            /\ \A i \in 1..Len(query) : query[i] \notin {CH_SPACE, CH_PLUS}
            /\ decodeURIComponent(path) = cx.destination
            /\ given => decodeURIComponent(query) = cx.startParam
            /\ ~given => query = <<>>
            /\ (\A i \in 1..Len(cx.destination) : Unreserved(cx.destination[i]))
               /\ (\A i \in 1..Len(cx.startParam) : Unreserved(cx.startParam[i]))
               => url = LiteralUrl(cx.type, cx.destination, cx.startParam)

\* A bot URL was built from a destination and a start parameter that both
\* hold a character encodeURIComponent escapes.
EscapedBotUrl ==
    /\ cx.stage = "built" /\ cx.type = "bot"
    /\ \E i \in 1..Len(cx.destination) : cx.destination[i] = CH_SPACE
    /\ \E i \in 1..Len(cx.startParam) : cx.startParam[i] = CH_PLUS
    /\ cx.url # LiteralUrl(cx.type, cx.destination, cx.startParam)

(***************************************************************************)
(* Properties of the format checks, checked on SpecFormat.                 *)
(***************************************************************************)

\* C11: isValidCodeFormat is true exactly for a text of 1 to 64 characters,
\* all of [A-Za-z0-9_-]: false for null, undefined, the empty text, a longer
\* text, and a text with a character outside the class.
FormatExact ==
    cx.stage = "checked" =>
        (cx.format <=> /\ cx.arg.type = "string"
                       /\ Len(cx.arg.chars) \in 1..64
                       /\ \A i \in 1..Len(cx.arg.chars) : cx.arg.chars[i] \in 0..63)

\* A text of 64 characters of the class was accepted.
LongestAccepted ==
    /\ cx.stage = "checked" /\ cx.format
    /\ Len(cx.arg.chars) = 64

\* C12: validateCode is false for the empty text, a text shorter than the
\* shortest code (signature and ten characters), a text longer than 64 and a
\* text with a character outside [A-Za-z0-9_-], whatever signature it ends in.
MismatchRejected ==
    cx.stage = "checked" /\ cx.arg.type = "string"
    /\ (\/ Len(cx.arg.chars) < SIGNATURE_LENGTH + 10
        \/ Len(cx.arg.chars) > 64
        \/ \E i \in 1..Len(cx.arg.chars) : cx.arg.chars[i] \notin 0..63)
    => ~cx.valid

\* A text that ends in the signature of what precedes it was rejected for a
\* character outside the class.
SignedMismatchRejected ==
    /\ cx.stage = "checked" /\ cx.arg.type = "string" /\ ~cx.valid
    /\ Len(cx.arg.chars) \in (SIGNATURE_LENGTH + 10)..64
    /\ \E i \in 1..Len(cx.arg.chars) : cx.arg.chars[i] \notin 0..63
    /\ verifySignature(SubSeq(cx.arg.chars, 1, Len(cx.arg.chars) - SIGNATURE_LENGTH),
                       SubSeq(cx.arg.chars, Len(cx.arg.chars) - SIGNATURE_LENGTH + 1,
                              Len(cx.arg.chars)))

(***************************************************************************)
(* Properties of the rejection of codes, checked on SpecReject.            *)
(***************************************************************************)

\* C13: the resolve handler answers the malformed code with 400 'Invalid
\* code format', though its signature does not verify either, and the
\* well-formed code with a signature that does not verify with 400 'Invalid
\* code'; neither with 404.
FormatBeforeSignature ==
    resp.pc = "done" /\ resp.kind = "resolve" =>
        /\ resp.input = MalformedInput
           => resp.status = 400 /\ resp.body.error = "Invalid code format"
        /\ resp.input = ForgedInput
           => resp.status = 400 /\ resp.body.error = "Invalid code"

\* The malformed code was rejected by a resolve.
MalformedRejected ==
    /\ resp.pc = "done" /\ resp.kind = "resolve" /\ resp.input = MalformedInput
    /\ ~isValidCodeFormat(InputString(resp.input))
    /\ ~validateCode(InputString(resp.input))
    /\ resp.status = 400

\* C14, as stated: a resolve of a well-formed code that was never issued
\* answers 404.
ForgedNotFound ==
    resp.pc = "done" /\ resp.kind = "resolve" /\ resp.input = ForgedInput
    => resp.status = 404

\* C14, amended: a resolve of a well-formed code that was never issued, whose
\* signature does not verify, answers 400 'Invalid code' without a lookup in
\* the store; a resolve answers 404 only for a code whose signature verifies
\* and that the store, which it asked, does not hold.
ForgedInvalid ==
    resp.pc = "done" /\ resp.kind = "resolve" =>
        /\ resp.input = ForgedInput
           => /\ resp.status = 400
              /\ resp.body = [success |-> FALSE, error |-> "Invalid code"]
              /\ "getCode" \notin resp.ops
        /\ resp.status = 404
           => /\ validateCode(InputString(resp.input))
              /\ "getCode" \in resp.ops

\* The forged code was rejected by a resolve while the store held a mapping.
ForgedRejected ==
    /\ resp.pc = "done" /\ resp.kind = "resolve" /\ resp.input = ForgedInput
    /\ isValidCodeFormat(InputString(resp.input))
    /\ resp.status = 400
    /\ \E c \in CodeIds : getCode(store, c) # NULL

\* C15: no handler is ever past its checks with the forged or the malformed
\* code, and the step in which a resolve or a status check answers for one of
\* them made no call to the cache or the store and left both as they were.
RejectionStoreFree ==
    /\ [](\A p \in Procs : proc[p].input \notin {ForgedInput, MalformedInput})
    /\ [][ resp'.pc = "done" /\ resp'.input \in {ForgedInput, MalformedInput}
           => /\ resp'.status = 400
              /\ resp'.ops = {}
              /\ store' = store /\ cache' = cache /\ heap' = heap ]_vars

\* A status check rejected the forged code while the cache and the store
\* held a mapping.
StatusRejectedForged ==
    /\ resp.pc = "done" /\ resp.kind = "status" /\ resp.input = ForgedInput
    /\ resp.status = 400 /\ resp.ops = {}
    /\ \E c \in CodeIds : cache[c] # NoRef /\ getCode(store, c) # NULL

(***************************************************************************)
(* Properties of the click handler, checked on SpecClick.                  *)
(***************************************************************************)

\* How often a handler made a call.
TimesCalled(r, name) == Cardinality({i \in DOMAIN r.calls : r.calls[i] = name})

\* The response the slug table prescribes for a click on an active slug,
\* code being the code issued for it (0: none).
ClickResponseFor(slug, code) ==
    LET cfg == SlugTable[slug]
        start == IF code = 0 THEN <<>> ELSE CodeOf[code]
    IN  IF cfg.mode = "302"
        THEN [status |-> 302,
              body |-> [location |-> buildFallbackUrl(cfg.type, cfg.destination, start)]]
        ELSE [status |-> 200,
              body |-> [html |-> cfg.type, destination |-> cfg.destination,
                        startParam |-> code]]

\* C16: a bot click whose storeCode failed is answered as one whose
\* storeCode succeeded, with the redirect or the hand-off page of its slug
\* and code, after logClick was attempted; the store holds the mapping of
\* the code exactly when storeCode did not fail.
StoreFailureNonFatal ==
    resp.pc = "done" /\ resp.kind = "click" /\ resp.code # 0 =>
        /\ resp.status = ClickResponseFor(resp.slug, resp.code).status
        /\ resp.body = ClickResponseFor(resp.slug, resp.code).body
        /\ "logClick" \in resp.ops
        /\ "storeCode" \in resp.failed <=> getCode(store, resp.code) = NULL
        /\ "storeCode" \notin resp.failed
           => getCode(store, resp.code) = issued[resp.code]
        /\ "logClick" \notin resp.failed
           => \E n \in 1..Len(clickLogs) :
                 /\ clickLogs[n].code = resp.code
                 /\ clickLogs[n].redirectTarget = resp.target

\* A bot click was answered with its redirect after its storeCode failed;
\* its log entry is there and its mapping is not.
RedirectedWithoutMapping ==
    /\ resp.pc = "done" /\ resp.kind = "click" /\ resp.code # 0
    /\ "storeCode" \in resp.failed /\ "logClick" \notin resp.failed
    /\ resp.status = 302
    /\ Len(clickLogs) > 0
    /\ getCode(store, resp.code) = NULL

\* C17: every click on an active slug calls logClick exactly once, as its
\* last call before the response, whatever the destination type and whether
\* or not storeCode failed; the response is the one of its slug and code
\* whether or not logClick failed.
LogClickAlwaysOnce ==
    resp.pc = "done" /\ resp.kind = "click"
    /\ resp.slug \in DOMAIN SlugTable /\ SlugTable[resp.slug].active =>
        /\ TimesCalled(resp, "logClick") = 1
        /\ resp.calls[Len(resp.calls)] = "logClick"
        /\ resp.status = ClickResponseFor(resp.slug, resp.code).status
        /\ resp.body = ClickResponseFor(resp.slug, resp.code).body
        /\ "logClick" \notin resp.failed => Len(clickLogs) > 0

\* A click on a destination that is no bot was answered with its hand-off
\* page after its logClick failed.
AnsweredWithoutLog ==
    /\ resp.pc = "done" /\ resp.kind = "click"
    /\ resp.slug \in DOMAIN SlugTable
    /\ SlugTable[resp.slug].type # "bot"
    /\ "logClick" \in resp.failed
    /\ resp.status = 200
    /\ clickLogs = <<>>

UnknownSlugNotFound ==
    [][ resp'.pc = "done" /\ resp'.kind = "click"
        /\ (resp'.slug \notin DOMAIN SlugTable \/ ~SlugTable[resp'.slug].active)
        => /\ resp'.status = 404
           /\ resp'.calls = <<>> /\ resp'.ops = {}
           /\ store' = store /\ clickLogs' = clickLogs /\ issued' = issued ]_vars

\* A click on the inactive slug was answered 404.
InactiveSlugNotFound ==
    /\ resp.pc = "done" /\ resp.kind = "click"
    /\ resp.slug \in DOMAIN SlugTable /\ ~SlugTable[resp.slug].active
    /\ resp.status = 404

(***************************************************************************)
(* Failures of the store, checked on Spec.                                 *)
(***************************************************************************)
\* The objects the cache holds are left as they are by a step.
CachedUntouched ==
    \A c \in CodeIds : cache[c] # NoRef => heap'[cache[c]] = heap[cache[c]]

\* C21: when getCode throws in a resolve or a status request, the request is
\* answered with a 5xx status, and the handler has called neither
\* markResolved nor deleteCode nor cache.set nor cache.delete: the step that
\* made the failing call and the step that answers leave the store and the
\* cache as they were.
ReadFailureSurfaced ==
    [][\A p \in Procs :
          /\ ( /\ proc[p].pc = "idle"
               /\ proc'[p].pc \in {"r_got", "s_got"}
               /\ proc'[p].threw )
             => /\ store' = store
                /\ cache' = cache
                /\ CachedUntouched
          /\ ( /\ proc[p].pc \in {"r_got", "s_got"}
               /\ proc[p].threw
               /\ proc'[p] # proc[p] )
             => /\ resp'.pc = "done"
                /\ resp'.kind = proc[p].kind
                /\ resp'.input = proc[p].input
                /\ resp'.status \in 500..599
                /\ resp'.ops \cap {"markResolved", "deleteCode",
                                   "cache.set", "cache.delete"} = {}
                /\ store' = store
                /\ cache' = cache
                /\ CachedUntouched]_vars

\* A resolve request whose read of a stored code failed has been answered.
ReadFailureAnswered ==
    /\ resp.pc = "done"
    /\ resp.kind = "resolve"
    /\ resp.status = 500
    /\ "getCode" \in resp.ops
    /\ resp.phase = 1

(***************************************************************************)
(* Repeated requests, checked on SpecRetry.                                *)
(***************************************************************************)
\* The answer to the noted request, asked again, is the noted answer, and
\* the store and the cache are as the noted request left them.
SameAsNoted ==
    /\ resp.status = cx.answer.status
    /\ resp.body = cx.answer.body
    /\ store = cx.store
    /\ CacheView = cx.cached

\* The noted request has been asked again and answered.
Repeated ==
    /\ cx.stage = "noted"
    /\ resp.pc = "done"
    /\ resp.kind = cx.answer.kind
    /\ resp.input = cx.answer.input

\* C22, as stated: a resolve or status request that ended in an error of any
\* kind, repeated with nothing in between, ends in the same error and leaves
\* the store and the cache as they were after the first request.
RepeatedErrorSame == Repeated => SameAsNoted

\* C22, amended: the same holds whenever the store serves the repeated
\* request as it served the first one, that is unless exactly one of the two
\* requests met a failing read (the 500 answer).  A read that fails once and
\* works the next time, or the other way round, changes the answer.
RepeatedErrorSameUnlessStoreDiffers ==
    (Repeated /\ ((cx.answer.status = 500) <=> (resp.status = 500))) => SameAsNoted

\* A not-found error has been repeated: the second request has read the store.
NotFoundRepeated ==
    /\ Repeated
    /\ cx.answer.status = 404
    /\ "getCode" \in resp.ops

(***************************************************************************)
(* Overlapping resolve requests, checked on Spec.                          *)
(***************************************************************************)
ResolveInFlight(i) ==
    \E q \in Procs : InFlight(q) /\ proc[q].kind = "resolve" /\ proc[q].input = i

\* C25: when resolve requests for the same stored code overlap and no storage
\* call fails, each of them is answered 200 with the attribution the click
\* stored, whichever way their steps interleave; and once none of them is
\* in flight any more, the store holds the mapping with resolved = true, and
\* so does the cache for as long as it holds the entry.
ConcurrentResolvesTolerated ==
    \A i \in CodeIds :
        (raced[i] /\ ~faulted) =>
            /\ ( /\ resp.pc = "done"
                 /\ resp.kind = "resolve"
                 /\ resp.input = i
                 /\ resp.phase >= 1 )
               => /\ resp.status = 200
                  /\ resp.body = [success |-> TRUE, data |-> issued[i].attribution]
            /\ (resolvedOk[i] /\ ~ResolveInFlight(i))
               => /\ getCode(store, i) # NULL
                  /\ getCode(store, i).resolved
                  /\ cache[i] # NoRef => heap[cache[i]].resolved

\* Two resolve requests of one code both found it unresolved and both called
\* markResolved; the first of them has been answered 200.
FirstOfTwoAnswered ==
    /\ ~faulted
    /\ resp.pc = "done"
    /\ resp.kind = "resolve"
    /\ resp.status = 200
    /\ "markResolved" \in resp.ops
    /\ \E q \in Procs :
          /\ proc[q].pc = "r_marked"
          /\ proc[q].input = resp.input
          /\ proc[q].phase = 1

(***************************************************************************)
(* The storage contract, checked on SpecStore.                             *)
(***************************************************************************)
\* C23: a write of the caller to an object it passed to a backend or received
\* from it, or to the attribution or queryParams object that one refers to,
\* changes nothing of what getCode and getClickLogs of either backend return.
ReadsAreDeepCopies ==
    cx.out.op = "mutate" =>
        /\ MemoryView(cx) = cx.out.memBefore
        /\ SqliteView(cx) = cx.out.sqlBefore

\* C24: markResolved called again right after markResolved of the same code
\* leaves the stored mapping, resolved and resolvedAt among its fields, as
\* the first call left it; and markResolved of a code that is not stored
\* changes nothing.  Both backends.
MarkResolvedIdempotent ==
    (cx.out.op = "markResolved"
       /\ (cx.out.repeats \/ cx.out.memBefore.codes[cx.out.call.code] = NULL)) =>
        /\ MemoryView(cx) = cx.out.memBefore
        /\ SqliteView(cx) = cx.out.sqlBefore

\* C26: getClickLogs(slug, limit) returns entries of that slug only, at most
\* limit of them, the most recent ones, most recent first, and leaves the
\* click log as it is: in MemoryStorage the last min(limit, n) of the n
\* entries of the slug in the reverse of the order they were logged in, in
\* SQLiteStorage those of the latest timestamps in descending order.
ClickLogsRecentFirst ==
    cx.out.op = "getClickLogs" =>
        LET OfSlug(log) == log.slug = cx.out.call.slug
            logged == SelectSeq(cx.out.memBefore.logs, OfSlug)
            rows == SelectSeq(cx.out.sqlBefore.logs, OfSlug)
            k == Min(cx.out.call.limit, Len(logged))
        IN  /\ cx.out.mem = [i \in 1..k |-> logged[Len(logged) + 1 - i]]
            /\ MemoryView(cx) = cx.out.memBefore
            /\ Len(cx.out.sql) = Min(cx.out.call.limit, Len(rows))
            /\ \A i \in 1..Len(cx.out.sql) :
                  /\ OfSlug(cx.out.sql[i])
                  /\ \A j \in (i + 1)..Len(cx.out.sql) :
                        cx.out.sql[i].timestamp >= cx.out.sql[j].timestamp
            /\ SqliteView(cx) = cx.out.sqlBefore

\* C28: every call of the contract returns the same on both backends and
\* throws on both or on neither, whatever calls came before it.
BackendsAgree ==
    cx.out.op \notin {"none", "mutate"} =>
        /\ cx.out.memThrew = cx.out.sqlThrew
        /\ cx.out.mem = cx.out.sql

(***************************************************************************)
(* The cap of the click log, checked on SpecCap.                           *)
(***************************************************************************)
\* C27: after any number of logClick calls the click log of MemoryStorage
\* holds at most MAX_CLICK_LOGS entries, and they are the entries logged
\* last, in the order they were logged in: a call that exceeds the cap drops
\* the oldest entry.
ClickLogCapped ==
    LET n == Len(cx.logs)
    IN  /\ n = Min(cx.logged, MAX_CLICK_LOGS)
        /\ cx.logs = [i \in 1..n |-> cx.logged - n + i]

\* The cap was exceeded twice: the two oldest entries are gone.
OldestEvicted ==
    /\ cx.logged = MAX_CLICK_LOGS + 2
    /\ Len(cx.logs) = MAX_CLICK_LOGS
    /\ cx.logs[1] = 3

(***************************************************************************)
(* Properties of the query parameters, on SpecParams.                      *)
(***************************************************************************)
Extracted == cx.stage = "extracted"

\* C29: the keys of extractUtmParams(query) are UTM names, no key of
\* extractExtraParams(query) is a UTM name, and every UTM value is in the
\* merged queryParams as extractUtmParams returned it.
UtmAndExtraDisjoint ==
    Extracted =>
        /\ DOMAIN cx.utm \subseteq UTM_PARAMS
        /\ DOMAIN cx.extra \cap UTM_PARAMS = {}
        /\ \A k \in DOMAIN cx.utm : cx.queryParams[k] = cx.utm[k]

\* C30: no key of the map extractExtraParams returns is a dangerous key.
NoDangerousKeyReturned ==
    Extracted => \A k \in DOMAIN cx.extra : ~isDangerousParam(k)

(***************************************************************************)
(* Further properties of the code lifecycle, on Spec.                      *)
(***************************************************************************)
\* resolved = true implies resolvedAt is set and not before createdAt.
WellResolved(m) ==
    m.resolved => (m.resolvedAt # NoTime /\ m.resolvedAt >= m.createdAt)

\* C31: every mapping the store or the cache holds with resolved = true has
\* resolvedAt set and not before createdAt, and the mapping a click created
\* has resolved = false and no resolvedAt.
CodeMappingInvariant ==
    \A c \in CodeIds :
        /\ getCode(store, c) # NULL => WellResolved(getCode(store, c))
        /\ cache[c] # NoRef => WellResolved(heap[cache[c]])
        /\ issued[c] # NULL =>
              (~issued[c].resolved /\ issued[c].resolvedAt = NoTime)

\* A code created after the clock has moved on is resolved in the store and
\* in the cache.
ResolvedLateCreated ==
    \E c \in CodeIds :
        /\ getCode(store, c) # NULL
        /\ getCode(store, c).resolved
        /\ getCode(store, c).createdAt > 0
        /\ cache[c] # NoRef
        /\ heap[cache[c]].resolved

\* A resolve request has just been answered 200.
ResolveSucceeded ==
    resp.pc = "done" /\ resp.kind = "resolve" /\ resp.status = 200

\* C32: with the one-time policy enabled and a store that does not fail, as
\* a resolve of a stored code is answered 200 the code is neither in the
\* store nor in the cache.
OneTimeDeletedOnSuccess ==
    (oneTimeCodes /\ ~faulted /\ ResolveSucceeded) =>
        /\ getCode(store, resp.input) = NULL
        /\ CacheGet(cache, resp.input) = NoRef

\* C33: a step that deletes a code from the store deletes a code the store
\* holds as resolved: no code goes from unresolved to deleted.
DeletionFollowsResolution ==
    [][ \A c \in CodeIds :
           (getCode(store, c) # NULL /\ getCode(store', c) = NULL) =>
               getCode(store, c).resolved ]_vars

\* Handler p goes on after the await of a getCode that returned a mapping.
GoesOnWithHit(p, pc) ==
    /\ proc[p].pc = pc
    /\ proc'[p].pc # pc
    /\ ~proc[p].threw
    /\ proc[p].mapping # NoRef

\* C34: in resolve and in status, the handler that missed the cache and got
\* the mapping from the store puts that mapping into the cache.
ReadThroughPopulates ==
    [][ \A p \in Procs :
           (GoesOnWithHit(p, "r_got") \/ GoesOnWithHit(p, "s_got")) =>
               cache'[proc[p].input] = proc[p].mapping ]_vars

\* C34, as the handlers do it: resolve puts the mapping it got from the store
\* into the cache, status leaves the cache as it is, and a handler calls
\* getCode only when the cache has no entry for the code.
ReadThroughInResolveOnly ==
    [][ \A p \in Procs :
           /\ GoesOnWithHit(p, "r_got") => cache'[proc[p].input] = proc[p].mapping
           /\ GoesOnWithHit(p, "s_got") => cache' = cache
           /\ ("getCode" \notin proc[p].ops /\ "getCode" \in proc'[p].ops) =>
                 CacheGet(cache, proc'[p].input) = NoRef ]_vars

\* A status request got the mapping from the store and is answered, and the
\* cache has no entry for the code; a resolve did the same before, and the
\* cache had one until it expired.
StatusLeftCacheEmpty ==
    /\ resp.pc = "done"
    /\ resp.kind = "status"
    /\ resp.status = 200
    /\ "getCode" \in resp.ops
    /\ CacheGet(cache, resp.input) = NoRef
    /\ resolvedOk[resp.input]

\* What the cache shows as resolved.
CachedResolved(ca, h, c) == ca[c] # NoRef /\ h[ca[c]].resolved

\* C35: while a resolve goes on after a markResolved that threw, the cache
\* holds the code with resolved = true.
MarkFailureLeavesCacheAhead ==
    \A p \in Procs :
        (proc[p].pc = "r_marked" /\ proc[p].threw) =>
            CachedResolved(cache, heap, proc[p].input)

\* C35, as the handler does it: the step after a markResolved that threw
\* changes no mapping and makes no cache entry resolved, and the resolve is
\* answered 200, at once or after its deleteCode.
MarkFailureLeavesCacheBehind ==
    [][ \A p \in Procs :
           /\ (proc[p].pc = "r_marked" /\ proc[p].threw /\ proc'[p].pc # "r_marked") =>
                 /\ \A c \in CodeIds :
                       CachedResolved(cache', heap', c) => CachedResolved(cache, heap, c)
                 /\ \A o \in ObjIds : heap'[o] # NULL => heap'[o] = heap[o]
                 /\ \/ proc'[p].pc = "r_deleted"
                    \/ (resp'.pc = "done" /\ resp'.kind = "resolve" /\ resp'.status = 200)
           /\ (proc[p].pc = "r_deleted" /\ proc'[p].pc # "r_deleted") =>
                 (resp'.pc = "done" /\ resp'.kind = "resolve" /\ resp'.status = 200) ]_vars

\* A resolve whose markResolved threw is answered 200, and the store and the
\* cache both hold the code unresolved.
FailedMarkAnswered ==
    /\ ~oneTimeCodes
    /\ ResolveSucceeded
    /\ "markResolved" \in resp.ops
    /\ getCode(store, resp.input) # NULL
    /\ ~getCode(store, resp.input).resolved
    /\ cache[resp.input] # NoRef
    /\ ~heap[cache[resp.input]].resolved

\* C36: a status check served from the cache, while no other request is in
\* flight, is answered as a handler reading the store would answer it.  The
\* code has been resolved by requests that did not overlap, on a store that
\* did not fail.
CacheTransparency ==
    ( /\ Quiet
      /\ ~faulted
      /\ resp.pc = "done"
      /\ resp.kind = "status"
      /\ resp.status = 200
      /\ "getCode" \notin resp.ops
      /\ ~raced[resp.input] ) =>
        /\ getCode(store, resp.input) # NULL
        /\ resp.body = StatusBody(getCode(store, resp.input))

\* C38: a code the cache holds with resolved = true is resolved in the store
\* too, or is not in the store any more.
CacheNotAheadOfStore ==
    \A c \in CodeIds :
        CachedResolved(cache, heap, c) =>
            \/ getCode(store, c) = NULL
            \/ getCode(store, c).resolved

\* The cache holds a code as resolved after resolves of it have overlapped
\* and a storage call has failed.
CacheResolvedAfterFailure ==
    \E c \in CodeIds :
        /\ CachedResolved(cache, heap, c)
        /\ getCode(store, c) # NULL
        /\ raced[c]
        /\ faulted

(***************************************************************************)
(* Stability of resolvedAt, on SpecSeen.                                   *)
(***************************************************************************)
\* C39: a status check that reports the code resolved reports the resolvedAt
\* an earlier status check of the code reported.  No resolves of the code
\* have overlapped and no storage call has failed.
ResolvedAtStable ==
    ( /\ cx.stage = "seen"
      /\ resp.pc = "done"
      /\ resp.kind = "status"
      /\ resp.status = 200
      /\ resp.input = cx.input
      /\ resp.body.resolved
      /\ ~raced[cx.input]
      /\ ~faulted ) =>
        resp.body.resolvedAt = cx.resolvedAt

(***************************************************************************)
(* The code of a bot click, on SpecBot.                                    *)
(***************************************************************************)
\* The start parameter a URL carries, decoded.
StartParamOf(url) == decodeURIComponent(SubSeq(url, StartAt(url) + 1, Len(url)))

Terminal(r) ==
    IF r.kind = "click"
    THEN IF getSlugConfig(r.slug) = NULL THEN {404} ELSE {302, 200}
    ELSE {200, 400, 404, 500}

\* C37: every request in flight is answered, and a handler ends only with a
\* response: 302 or the hand-off page (200) for a click on an active slug,
\* 200, 400, 404 or 500 for a resolve or a status request.
Termination ==
    /\ \A p \in Procs : InFlight(p) ~> ~InFlight(p)
    /\ [][ /\ \A p \in Procs :
                (InFlight(p) /\ ~InFlight(p)') =>
                    (resp'.pc = "done" /\ resp'.kind = proc[p].kind)
           /\ resp'.pc = "done" => resp'.status \in Terminal(resp') ]_vars

\* Two requests are in flight together, one of them after a storage call
\* that failed.
TwoInFlightOneFailed ==
    /\ \A p \in Procs : InFlight(p)
    /\ \E p \in Procs : proc[p].threw

====
